---- MODULE Spec2Model ----
(***************************************************************************)
(* Model of the router of the multi-agent customer service system          *)
(* (src/router.py): the A2A client (A2ASimpleClient.create_task, with its  *)
(* agent-card cache) and the orchestrator (RouterOrchestrator.call_agent   *)
(* and RouterOrchestrator.process_query, the bounded planning loop).       *)
(*                                                                         *)
(* A Python str is a sequence of string tokens (its concatenation); the    *)
(* language model, the agent-card endpoint and the agent's reply stream    *)
(* are the environment, and each await of the code is one step at which    *)
(* the environment answers.                                                *)
(***************************************************************************)
EXTENDS Integers, Sequences, FiniteSets, TLC

VARIABLES
    pc,                \* per invocation: "idle", "model", "discover", "close",
                       \* "send", "done"
    messages,          \* per invocation: the history list of process_query
    i,                 \* per invocation: the loop variable of `for i in range(max_turns)`
    plan,              \* per invocation: the delegation in progress (agent_name, content, clean_text, url)
    outcome,           \* per invocation: what process_query returned or raised
    agent_info_cache,  \* the client's self._agent_info_cache, shared by all invocations
    modelCalls,        \* per invocation: generate_content_async calls issued
    delegations,       \* per invocation: call_agent calls made
    reprompts,         \* per invocation: corrective turns appended
    lastEvent,         \* per invocation: what the last completed step of the loop did
    lastCall,          \* per invocation: how the last create_task call ended
    lastReply,         \* per invocation: what the last model call returned
    discoveries,       \* per endpoint: agent-card GET requests issued
    cacheWrites,       \* per endpoint: assignments to the entry of the cache
    sent,              \* every send_message issued: <<invocation, url, message>>
    deadline,          \* per invocation: the caller's deadline, "pending" or "expired"
    lastStream,        \* per invocation: the response stream of the last send_message
    customers,         \* the customers table: id -> row
    tickets,           \* the tickets table: the rows in the order of their ids
    schema,            \* the layout of the two tables (made outside src/)
    opResult,          \* what the last customer-data operation returned or raised
    lastOp,            \* the last customer-data operation: module, name, arguments
    openConnections,   \* connections mcp_server.py opened and has not closed
    mcpRequest,        \* the last message given to process_mcp_message
    mcpResponse        \* what process_mcp_message returned or raised for it

vars == <<pc, messages, i, plan, outcome, agent_info_cache, modelCalls,
          delegations, reprompts, lastEvent, lastCall, lastReply, discoveries, cacheWrites,
          sent, deadline, lastStream, customers, tickets, schema, opResult, lastOp,
          openConnections, mcpRequest, mcpResponse>>

routerVars == <<pc, messages, i, plan, outcome, agent_info_cache, modelCalls,
                delegations, reprompts, lastEvent, lastCall, lastReply, discoveries,
                cacheWrites, sent, deadline, lastStream>>
mcpVars == <<mcpRequest, mcpResponse>>
storeVars == <<customers, tickets, schema, opResult, lastOp, openConnections, mcpVars>>

(***************************************************************************)
(* Program constants                                                       *)
(***************************************************************************)
max_turns == 15

DATA_AGENT_URL == "http://localhost:10020"
SUPPORT_AGENT_URL == "http://localhost:10021"
Urls == {DATA_AGENT_URL, SUPPORT_AGENT_URL}

SYSTEM_PROMPT == "<system_prompt>"
INVALID_JSON_TEXT == <<"Invalid JSON. Please return ONLY valid JSON.">>
SYSTEM_ERROR_TEXT == <<"System Error">>
MAX_TURNS_TEXT == <<"Error: Maximum turns reached without final answer.">>
NO_RESPONSE_TEXT == <<"No response received">>
ERROR_CALLING_AGENT == "Error calling agent: "

(***************************************************************************)
(* Bounds of the model                                                     *)
(***************************************************************************)
\* invocations of process_query that exist (Spec runs the first one only)
NQueries == 2
\* call_agent plans the language model may return in one invocation under Spec
MaxDelegations == 1
\* call_agent plans the language model may return in one invocation under SpecAgents
MaxCalls == 2
\* call_agent plans the language model may return in all invocations under SpecConc
MaxConcCalls == 2
\* customers in the database
NCustomers == 1
\* tickets the operations may add
MaxTickets == 1
\* connections that may stay open
MaxOpen == 1

Queries == 1..NQueries

(***************************************************************************)
(* Python values.  A str is a sequence of tokens.  A value that need not   *)
(* be a str (a JSON value, what process_query returns) is a record with    *)
(* its type and, for a str, its tokens.                                    *)
(***************************************************************************)
PyStr(s) == [type |-> "str", s |-> s]
PyInt(n) == [type |-> "int", s |-> <<n>>]
NoValue == [type |-> "none", s |-> <<>>]

\* what json.loads returns: a dict is given by its keys and their values
Dict(keys, action, agent_name, content) ==
    [type |-> "dict", has |-> keys, action |-> action,
     agent_name |-> agent_name, content |-> content]
NonDict(type) ==
    [type |-> type, has |-> {}, action |-> "", agent_name |-> "", content |-> NoValue]

(***************************************************************************)
(* The text the language model returns, as tokens.  A JSON document is     *)
(* either one token (a complete literal) or a head token that ends inside  *)
(* the string of "content", the tokens of that string, and TAIL.           *)
(***************************************************************************)
\* the fence markers: ~ stands for the backquote, which a TLA+ string cannot hold
FENCE_JSON == "~~~json"
FENCE == "~~~"
NL == "\n"
TAIL == "\"}"

HEAD_FINAL == "{\"thought\": \"t\", \"action\": \"final_answer\", \"content\": \""
HEAD_CALL_DATA == "{\"thought\": \"t\", \"action\": \"call_agent\", \"agent_name\": \"customer_data\", \"content\": \""
HEAD_CALL_SUPPORT == "{\"thought\": \"t\", \"action\": \"call_agent\", \"agent_name\": \"support_agent\", \"content\": \""
HEAD_CALL_BILLING == "{\"thought\": \"t\", \"action\": \"call_agent\", \"agent_name\": \"billing\", \"content\": \""
HEAD_WAIT == "{\"thought\": \"t\", \"action\": \"wait\", \"content\": \""

DOC_NUMBER == "5"
DOC_LIST == "[1, 2]"
DOC_NO_THOUGHT == "{\"action\": \"final_answer\", \"content\": \"N\"}"
DOC_NO_ACTION == "{\"thought\": \"t\"}"
DOC_FINAL_NO_CONTENT == "{\"thought\": \"t\", \"action\": \"final_answer\"}"
DOC_FINAL_INT == "{\"thought\": \"t\", \"action\": \"final_answer\", \"content\": 42}"
DOC_CALL_NO_AGENT == "{\"thought\": \"t\", \"action\": \"call_agent\", \"content\": \"M\"}"
DOC_CALL_NO_CONTENT == "{\"thought\": \"t\", \"action\": \"call_agent\", \"agent_name\": \"customer_data\"}"

Heads == {HEAD_FINAL, HEAD_CALL_DATA, HEAD_CALL_SUPPORT, HEAD_CALL_BILLING, HEAD_WAIT}
Docs == {DOC_NUMBER, DOC_LIST, DOC_NO_THOUGHT, DOC_NO_ACTION, DOC_FINAL_NO_CONTENT,
         DOC_FINAL_INT, DOC_CALL_NO_AGENT, DOC_CALL_NO_CONTENT}

\* the dict a head token opens, given the tokens of its content string
HeadValue(head, content) ==
    CASE head = HEAD_FINAL ->
           Dict({"thought", "action", "content"}, "final_answer", "", PyStr(content))
      [] head = HEAD_CALL_DATA ->
           Dict({"thought", "action", "agent_name", "content"}, "call_agent",
                "customer_data", PyStr(content))
      [] head = HEAD_CALL_SUPPORT ->
           Dict({"thought", "action", "agent_name", "content"}, "call_agent",
                "support_agent", PyStr(content))
      [] head = HEAD_CALL_BILLING ->
           Dict({"thought", "action", "agent_name", "content"}, "call_agent",
                "billing", PyStr(content))
      [] head = HEAD_WAIT ->
           Dict({"thought", "action", "content"}, "wait", "", PyStr(content))

\* the value of a one-token document
DocValue(doc) ==
    CASE doc = DOC_NUMBER -> NonDict("int")
      [] doc = DOC_LIST -> NonDict("list")
      [] doc = DOC_NO_THOUGHT ->
           Dict({"action", "content"}, "final_answer", "", PyStr(<<"N">>))
      [] doc = DOC_NO_ACTION -> Dict({"thought"}, "", "", NoValue)
      [] doc = DOC_FINAL_NO_CONTENT -> Dict({"thought", "action"}, "final_answer", "", NoValue)
      [] doc = DOC_FINAL_INT ->
           Dict({"thought", "action", "content"}, "final_answer", "", PyInt("42"))
      [] doc = DOC_CALL_NO_AGENT ->
           Dict({"thought", "action", "content"}, "call_agent", "", PyStr(<<"M">>))
      [] doc = DOC_CALL_NO_CONTENT ->
           Dict({"thought", "action", "agent_name"}, "call_agent", "customer_data", NoValue)

\* tokens that may stand inside a JSON string: every token but those that
\* hold a quote (the heads, TAIL, the documents with a key, the system
\* prompt) or a control character (a newline, a tab, a carriage return, the
\* literal of the seed turn); a word, a blank, a fence marker, a number and
\* a list may
ControlTokens == {NL, "\t", "\r", "\n\nUser Query: ", "\n\nUser Query:"}
PromptTokens == {SYSTEM_PROMPT, "<system_prompt.lstrip()>", "<system_prompt.rstrip()>",
                 "<system_prompt.strip()>"}
ContentTokens(text) ==
    {text[k] : k \in 1..Len(text)}
        \ (Heads \cup (Docs \ {DOC_NUMBER, DOC_LIST})
              \cup {TAIL} \cup PromptTokens \cup ControlTokens)

\* the tokens that are digits only: DOC_NUMBER, the query and the answer of
\* invocation q (ToString(q)), and the numbers the customer data holds
DigitTokens == {DOC_NUMBER, "1", "7", "42", "111", "222"} \cup {ToString(q) : q \in Queries}

IsFence(tok) == tok = FENCE_JSON \/ tok = FENCE
NotFence(tok) == ~IsFence(tok)

\* mutant: only the marker that names json is removed
RemoveFences_JsonOnly(text) == SelectSeq(text, LAMBDA tok : tok # FENCE_JSON)

\* str.replace("```json", "").replace("```", ""): every fence token goes,
\* wherever it stands
RemoveFences(text) == SelectSeq(text, NotFence)

\* the tokens that hold whitespace characters only, or no character
Whitespace == {"", " ", NL, "\t", "\r"}

\* the tokens that begin with whitespace and hold more, without it; the
\* system prompt of line 193 begins and ends with a newline
LStripToken(tok) ==
    CASE tok = SYSTEM_PROMPT -> "<system_prompt.lstrip()>"
      [] tok = "<system_prompt.rstrip()>" -> "<system_prompt.strip()>"
      [] tok = "\n\nUser Query: " -> "User Query: "
      [] tok = "\n\nUser Query:" -> "User Query:"
      [] OTHER -> tok

\* the tokens that end with whitespace and hold more, without it
RStripToken(tok) ==
    CASE tok = SYSTEM_PROMPT -> "<system_prompt.rstrip()>"
      [] tok = "<system_prompt.lstrip()>" -> "<system_prompt.strip()>"
      [] tok = "\n\nUser Query: " -> "\n\nUser Query:"
      [] tok = "User Query: " -> "User Query:"
      [] tok = "Error calling agent: " -> "Error calling agent:"
      [] tok = "Result from " -> "Result from"
      [] tok = ": " -> ":"
      [] OTHER -> tok

\* str.strip(): the whitespace characters at both ends go.  A token of
\* whitespace goes as a whole; the first token that holds another character
\* loses the whitespace it begins with, the last one the whitespace it ends
\* with
LStrip(text) ==
    LET kept == {k \in 1..Len(text) : text[k] \notin Whitespace} IN
    IF kept = {} THEN <<>>
    ELSE LET first == CHOOSE k \in kept : \A j \in kept : k <= j IN
         <<LStripToken(text[first])>> \o SubSeq(text, first + 1, Len(text))
RStrip(text) ==
    LET kept == {k \in 1..Len(text) : text[k] \notin Whitespace} IN
    IF kept = {} THEN <<>>
    ELSE LET last == CHOOSE k \in kept : \A j \in kept : k >= j IN
         SubSeq(text, 1, last - 1) \o <<RStripToken(text[last])>>
Strip(text) == RStrip(LStrip(text))

\* clean_text = response_text.replace("```json", "").replace("```", "").strip()
CleanText(response_text) == Strip(RemoveFences(response_text))

\* json.loads of a text without whitespace around it and without empty
\* tokens: digits that follow one another are one number; the bodies null,
\* [] and {} are documents too
JsonValue(doc) ==
    IF Len(doc) = 1 /\ doc[1] \in Docs
    THEN [ok |-> TRUE, value |-> DocValue(doc[1])]
    ELSE IF doc # <<>> /\ \A k \in 1..Len(doc) : doc[k] \in DigitTokens
    THEN [ok |-> TRUE, value |-> NonDict("int")]
    ELSE IF doc = <<"null">> THEN [ok |-> TRUE, value |-> NonDict("NoneType")]
    ELSE IF doc = <<"[]">> THEN [ok |-> TRUE, value |-> NonDict("list")]
    ELSE IF doc = <<"{}">> THEN [ok |-> TRUE, value |-> Dict({}, "", "", NoValue)]
    ELSE IF /\ Len(doc) >= 2
            /\ doc[1] \in Heads
            /\ doc[Len(doc)] = TAIL
            /\ \A k \in 2..(Len(doc) - 1) : doc[k] \in ContentTokens(doc)
         THEN [ok |-> TRUE,
               value |-> HeadValue(doc[1], SubSeq(doc, 2, Len(doc) - 1))]
         ELSE [ok |-> FALSE, value |-> NonDict("none")]

\* json.loads: the value, or JSONDecodeError.  Whitespace around the
\* document is skipped; an empty token adds nothing to the text
JsonLoads(text) == JsonValue(Strip(SelectSeq(text, LAMBDA tok : tok # "")))

\* plan[key]: a dict without the key raises KeyError, a value that is no
\* dict raises TypeError
Subscript(value, key) ==
    IF value.type # "dict" THEN "TypeError"
    ELSE IF key \notin value.has THEN "KeyError"
    ELSE "ok"

(***************************************************************************)
(* The A2A client: A2ASimpleClient.create_task                             *)
(***************************************************************************)
\* str(e) of the exceptions the client can raise
MSG_CONNECT == "All connection attempts failed"
MSG_JSON == "Expecting value: line 1 column 1 (char 0)"
\* the text names the callable and the type of the value that is no mapping
MSG_NOT_MAPPING(kind) ==
    IF kind = "None"
    THEN "a2a.types.AgentCard() argument after ** must be a mapping, not NoneType"
    ELSE "a2a.types.AgentCard() argument after ** must be a mapping, not list"
MSG_VALIDATION == "validation errors for AgentCard"
MSG_READ_TIMEOUT == "ReadTimeout"
MSG_NOT_SUBSCRIPTABLE == "'NoneType' object is not subscriptable"

\* a value of self._agent_info_cache[url]; "missing": the key is not in the dict
CacheEntry(kind, valid, origin) == [kind |-> kind, valid |-> valid, origin |-> origin]
Missing == CacheEntry("missing", FALSE, "")

\* mutant: the cache is never consulted
CacheHit_Never(cache, agent_url) == FALSE

\* agent_url in self._agent_info_cache and self._agent_info_cache[agent_url] is not None
CacheHit(cache, agent_url) ==
    cache[agent_url].kind # "missing" /\ cache[agent_url].kind # "None"

\* agent_card_response.json(): the body parsed, or JSONDecodeError
ResponseJson(body, agent_url) ==
    CASE body = "null" -> [ok |-> TRUE, value |-> CacheEntry("None", FALSE, agent_url)]
      [] body = "[]" -> [ok |-> TRUE, value |-> CacheEntry("list", FALSE, agent_url)]
      [] body = "{}" -> [ok |-> TRUE, value |-> CacheEntry("dict", FALSE, agent_url)]
      [] body = "card" -> [ok |-> TRUE, value |-> CacheEntry("dict", TRUE, agent_url)]
      [] OTHER -> [ok |-> FALSE, value |-> Missing]

\* AgentCard(**agent_card_data): the card, or the exception's text
AgentCard(agent_card_data) ==
    IF agent_card_data.kind # "dict"
    THEN [ok |-> FALSE, msg |-> MSG_NOT_MAPPING(agent_card_data.kind)]
    ELSE IF ~agent_card_data.valid THEN [ok |-> FALSE, msg |-> MSG_VALIDATION]
    ELSE [ok |-> TRUE, msg |-> ""]

\* The reply stream of send_message.  A unit is a (task, update) tuple or a
\* Message; a task has artifacts (or None), an artifact its parts, a part a
\* text or none (a file or data part).
Part(has_text, text) == [has_text |-> has_text, text |-> text]
Task(artifacts_none, artifacts) ==
    [artifacts_none |-> artifacts_none, artifacts |-> artifacts]
Unit(is_tuple, task) ==
    [is_tuple |-> is_tuple, len |-> IF is_tuple THEN 2 ELSE 0, task |-> task]
\* the tuple ()
EmptyTuple == [is_tuple |-> TRUE, len |-> 0, task |-> Task(TRUE, <<>>)]

\* str(part), str(artifact), str(task)
RenderPart(part) == IF part.has_text THEN <<"TextPart(", part.text, ")">> ELSE <<"FilePart()">>
RECURSIVE RenderParts(_)
RenderParts(parts) ==
    IF parts = <<>> THEN <<>> ELSE RenderPart(Head(parts)) \o RenderParts(Tail(parts))
RECURSIVE RenderArtifacts(_)
RenderArtifacts(artifacts) ==
    IF artifacts = <<>> THEN <<>>
    ELSE <<"Artifact(parts=[">> \o RenderParts(Head(artifacts)) \o <<"])">>
         \o RenderArtifacts(Tail(artifacts))
RenderTask(task) ==
    IF task.artifacts_none THEN <<"Task(artifacts=None)">>
    ELSE <<"Task(artifacts=[">> \o RenderArtifacts(task.artifacts) \o <<"])">>

\* mutant: the text is taken from the last unit of the stream
ExtractText_LastUnit(responses) ==
    IF responses # <<>> /\ responses[Len(responses)].is_tuple
       /\ responses[Len(responses)].len > 0
    THEN LET task == responses[Len(responses)].task IN
         IF task.artifacts_none
         THEN [how |-> "raise", text |-> <<MSG_NOT_SUBSCRIPTABLE>>]
         ELSE IF task.artifacts = <<>> \/ task.artifacts[1] = <<>>
                 \/ ~task.artifacts[1][1].has_text
              THEN [how |-> "render", text |-> RenderTask(task)]
              ELSE [how |-> "text", text |-> <<task.artifacts[1][1].text>>]
    ELSE [how |-> "no_response", text |-> NO_RESPONSE_TEXT]

\* lines 103-117: the text of the first unit, str(task) when an index or an
\* attribute is missing, the fixed text when there is no first tuple; None[0]
\* raises TypeError, which the except clause does not name
ExtractText(responses) ==
    IF responses # <<>> /\ responses[1].is_tuple /\ responses[1].len > 0
    THEN LET task == responses[1].task IN
         IF task.artifacts_none
         THEN [how |-> "raise", text |-> <<MSG_NOT_SUBSCRIPTABLE>>]
         ELSE IF task.artifacts = <<>> \/ task.artifacts[1] = <<>>
                 \/ ~task.artifacts[1][1].has_text
              THEN [how |-> "render", text |-> RenderTask(task)]
              ELSE [how |-> "text", text |-> <<task.artifacts[1][1].text>>]
    ELSE [how |-> "no_response", text |-> NO_RESPONSE_TEXT]

(***************************************************************************)
(* The orchestrator: RouterOrchestrator.call_agent and process_query       *)
(***************************************************************************)
\* mutant: every agent name is routed to the support endpoint
AgentUrl_AlwaysSupport(agent_name) == SUPPORT_AGENT_URL

\* url = self.DATA_AGENT_URL if agent_name == "customer_data" else self.SUPPORT_AGENT_URL
AgentUrl(agent_name) ==
    IF agent_name = "customer_data" THEN DATA_AGENT_URL ELSE SUPPORT_AGENT_URL

\* mutant: the exception's text is returned as it is
ErrorText_NoPrefix(msg) == <<msg>>

\* except Exception as e: return f"Error calling agent: {str(e)}"
ErrorText(msg) == <<ERROR_CALLING_AGENT, msg>>

NoPlan == [agent_name |-> "", content |-> <<>>, clean_text |-> <<>>, url |-> ""]
\* what generate_content_async gives: response.text, or an exception
Reply(text) == [raises |-> FALSE, text |-> text]
ModelRaises == [raises |-> TRUE, text |-> <<>>]
NoReply == [raises |-> FALSE, text |-> <<>>]

NoCall == [stage |-> "none", raised |-> FALSE, text |-> <<>>]

Running == [kind |-> "none", value |-> NoValue]
Returned(value) == [kind |-> "return", value |-> value]
Raised(exc) == [kind |-> "raise", value |-> [type |-> exc, s |-> <<>>]]

\* the seed turn: system_prompt + f"\n\nUser Query: {user_query}"
SeedTurn(user_query) ==
    [role |-> "user", parts |-> <<SYSTEM_PROMPT, "\n\nUser Query: ", user_query>>]
CorrectiveTurn == [role |-> "user", parts |-> INVALID_JSON_TEXT]
ModelTurn(clean_text) == [role |-> "model", parts |-> clean_text]

\* mutant: the result of the call is left out of the result turn
ResultTurn_WithoutResult(agent_name, agent_response) ==
    [role |-> "user", parts |-> <<"Result from ", agent_name, ": ">>]

ResultTurn(agent_name, agent_response) ==
    [role |-> "user", parts |-> <<"Result from ", agent_name, ": ">> \o agent_response]

\* what one turn decides
Decision(kind, exc, clean_text, value) ==
    [kind |-> kind, exc |-> exc, clean_text |-> clean_text, value |-> value]

\* lines 237-252: the plan is parsed and its fields are read, in this order
DecidePlan(clean_text) ==
    LET loaded == JsonLoads(clean_text)
        value == loaded.value
        sub(key) == Subscript(value, key)
        d(kind, exc) == Decision(kind, exc, clean_text, value)
    IN  IF ~loaded.ok THEN d("parse_failure", "")
        ELSE IF sub("thought") # "ok" THEN d("raise", sub("thought"))
        ELSE IF sub("action") # "ok" THEN d("raise", sub("action"))
        ELSE IF value.action = "final_answer"
             THEN IF sub("content") # "ok" THEN d("raise", sub("content"))
                  ELSE d("final_answer", "")
        ELSE IF value.action = "call_agent"
             THEN IF sub("agent_name") # "ok" THEN d("raise", sub("agent_name"))
                  ELSE IF sub("content") # "ok" THEN d("raise", sub("content"))
                  ELSE d("call_agent", "")
        ELSE d("no_action", "")

\* mutant: a failed model call is answered like unparsable output, and retried
Decide_RetriesModelFailure(reply) ==
    IF reply.raises THEN Decision("parse_failure", "", <<>>, NonDict("none"))
    ELSE DecidePlan(CleanText(reply.text))

\* lines 227-235: the model call failed, or its text is cleaned and parsed
Decide(reply) ==
    IF reply.raises THEN Decision("system_error", "", <<>>, NonDict("none"))
    ELSE DecidePlan(CleanText(reply.text))

\* the variables of invocation q, as one record
Local(q) ==
    [pc |-> pc[q], messages |-> messages[q], i |-> i[q], plan |-> plan[q],
     outcome |-> outcome[q], modelCalls |-> modelCalls[q],
     delegations |-> delegations[q], reprompts |-> reprompts[q],
     lastEvent |-> lastEvent[q], lastCall |-> lastCall[q],
     lastReply |-> lastReply[q], deadline |-> deadline[q],
     lastStream |-> lastStream[q]]

\* mutant: the history is one list of the orchestrator, shared by its invocations
SetLocal_SharedHistory(q, L) ==
    /\ pc' = [pc EXCEPT ![q] = L.pc]
    /\ messages' = [r \in Queries |-> L.messages]
    /\ i' = [i EXCEPT ![q] = L.i]
    /\ plan' = [plan EXCEPT ![q] = L.plan]
    /\ outcome' = [outcome EXCEPT ![q] = L.outcome]
    /\ modelCalls' = [modelCalls EXCEPT ![q] = L.modelCalls]
    /\ delegations' = [delegations EXCEPT ![q] = L.delegations]
    /\ reprompts' = [reprompts EXCEPT ![q] = L.reprompts]
    /\ lastEvent' = [lastEvent EXCEPT ![q] = L.lastEvent]
    /\ lastCall' = [lastCall EXCEPT ![q] = L.lastCall]
    /\ lastReply' = [lastReply EXCEPT ![q] = L.lastReply]
    /\ deadline' = [deadline EXCEPT ![q] = L.deadline]
    /\ lastStream' = [lastStream EXCEPT ![q] = L.lastStream]

SetLocal(q, L) ==
    /\ pc' = [pc EXCEPT ![q] = L.pc]
    /\ messages' = [messages EXCEPT ![q] = L.messages]
    /\ i' = [i EXCEPT ![q] = L.i]
    /\ plan' = [plan EXCEPT ![q] = L.plan]
    /\ outcome' = [outcome EXCEPT ![q] = L.outcome]
    /\ modelCalls' = [modelCalls EXCEPT ![q] = L.modelCalls]
    /\ delegations' = [delegations EXCEPT ![q] = L.delegations]
    /\ reprompts' = [reprompts EXCEPT ![q] = L.reprompts]
    /\ lastEvent' = [lastEvent EXCEPT ![q] = L.lastEvent]
    /\ lastCall' = [lastCall EXCEPT ![q] = L.lastCall]
    /\ lastReply' = [lastReply EXCEPT ![q] = L.lastReply]
    /\ deadline' = [deadline EXCEPT ![q] = L.deadline]
    /\ lastStream' = [lastStream EXCEPT ![q] = L.lastStream]

\* mutant: the return statement is missing, the loop goes on
Finish_KeepsLooping(L, result, event) ==
    [L EXCEPT !.i = @ + 1, !.pc = "model", !.modelCalls = @ + 1,
              !.outcome = result, !.lastEvent = event, !.plan = NoPlan]

\* process_query returns or raises
Finish(L, result, event) ==
    [L EXCEPT !.pc = "done", !.outcome = result, !.lastEvent = event, !.plan = NoPlan]

\* mutant: the loop runs one iteration more than max_turns
NextTurn_OneMore(L, event) ==
    IF L.i + 1 < max_turns + 1
    THEN [L EXCEPT !.i = @ + 1, !.pc = "model", !.modelCalls = @ + 1,
                   !.lastEvent = event, !.plan = NoPlan]
    ELSE Finish(L, Returned(PyStr(MAX_TURNS_TEXT)), event)

\* the body of the loop ends (continue, or its last statement): the next
\* iteration calls the model, and after max_turns iterations line 261 returns
NextTurn(L, event) ==
    IF L.i + 1 < max_turns
    THEN [L EXCEPT !.i = @ + 1, !.pc = "model", !.modelCalls = @ + 1,
                   !.lastEvent = event, !.plan = NoPlan]
    ELSE Finish(L, Returned(PyStr(MAX_TURNS_TEXT)), event)

\* mutant: the corrective turn is appended twice
Reprompt_Twice(L) ==
    NextTurn([L EXCEPT !.messages = @ \o <<CorrectiveTurn, CorrectiveTurn>>,
                       !.reprompts = @ + 1],
             "parse_failure")

\* mutant: earlier turns are dropped, only the seed turn and the corrective turn stay
Reprompt_Truncates(L) ==
    NextTurn([L EXCEPT !.messages = <<Head(@), CorrectiveTurn>>, !.reprompts = @ + 1],
             "parse_failure")

\* mutant: unparsable output is asked for again without using up a turn
Reprompt_StaysPut(L) == [L EXCEPT !.lastEvent = "parse_failure"]

\* lines 239-242: the corrective turn
Reprompt(L) ==
    NextTurn([L EXCEPT !.messages = Append(@, CorrectiveTurn), !.reprompts = @ + 1],
             "parse_failure")

\* mutant: the plan text of the model is not appended, only the result turn
AppendResult_DropsModelTurn(L, call) ==
    NextTurn([L EXCEPT
                !.messages = Append(@, ResultTurn(L.plan.agent_name, call.text)),
                !.lastCall = call],
             "delegated")

\* mutant: the result turn is appended before the model turn
AppendResult_ResultFirst(L, call) ==
    NextTurn([L EXCEPT
                !.messages = @ \o <<ResultTurn(L.plan.agent_name, call.text),
                                    ModelTurn(L.plan.clean_text)>>,
                !.lastCall = call],
             "delegated")

\* mutant: a call that failed is made again before its result is folded back
AppendResult_RetriesFailure(L, call) ==
    IF call.raised /\ L.pc = "send"
    THEN [L EXCEPT !.pc = "discover", !.lastCall = call]
    ELSE NextTurn([L EXCEPT
                     !.messages = @ \o <<ModelTurn(L.plan.clean_text),
                                         ResultTurn(L.plan.agent_name, call.text)>>,
                     !.lastCall = call],
                  "delegated")

\* lines 252-259: call_agent has returned agent_response
AppendResult(L, call) ==
    NextTurn([L EXCEPT
                !.messages = @ \o <<ModelTurn(L.plan.clean_text),
                                    ResultTurn(L.plan.agent_name, call.text)>>,
                !.lastCall = call],
             "delegated")

\* how create_task ended: with the text it returned, or with an exception that
\* call_agent turned into text
CallReturned(stage, text) == [stage |-> stage, raised |-> FALSE, text |-> text]
CallRaised(stage, msg) == [stage |-> stage, raised |-> TRUE, text |-> ErrorText(msg)]

\* mutant: the next model call is issued while the message is still in flight
UseCard_CallsModelAtOnce(q, L, agent_card_data) ==
    LET card == AgentCard(agent_card_data) IN
    IF card.ok
    THEN /\ SetLocal(q, [L EXCEPT !.pc = "send", !.modelCalls = @ + 1])
         /\ sent' = Append(sent, <<q, L.plan.url, L.plan.content>>)
    ELSE /\ SetLocal(q, AppendResult(L, CallRaised("card", card.msg)))
         /\ UNCHANGED sent

\* lines 79-101 once agent_card_data is known: the card is built and the
\* message sent, or AgentCard raises
UseCard(q, L, agent_card_data) ==
    LET card == AgentCard(agent_card_data) IN
    IF card.ok
    THEN /\ SetLocal(q, [L EXCEPT !.pc = "send"])
         /\ sent' = Append(sent, <<q, L.plan.url, L.plan.content>>)
    ELSE /\ SetLocal(q, AppendResult(L, CallRaised("card", card.msg)))
         /\ UNCHANGED sent

\* process_query is called: lines 222-228, up to the first model call
StartQuery(q, UserQueries) ==
    /\ pc[q] = "idle"
    /\ UNCHANGED storeVars
    /\ \E user_query \in UserQueries :
         SetLocal(q, [Local(q) EXCEPT !.pc = "model",
                                      !.messages = <<SeedTurn(user_query)>>,
                                      !.i = 0, !.modelCalls = 1,
                                      !.lastEvent = "start"])
    /\ UNCHANGED <<agent_info_cache, discoveries, cacheWrites, sent>>

\* the model call returns or raises: lines 229-252, and for a call_agent plan
\* call_agent and create_task up to their first await (lines 158-72)
ModelReturns(q, Replies, MaxPlans) ==
    /\ pc[q] = "model"
    /\ UNCHANGED storeVars
    /\ \E reply \in Replies :
         LET L == [Local(q) EXCEPT !.lastReply = reply]
             d == Decide(reply)
             P == [agent_name |-> d.value.agent_name, content |-> d.value.content.s,
                   clean_text |-> d.clean_text, url |-> AgentUrl(d.value.agent_name)]
             L1 == [L EXCEPT !.plan = P, !.delegations = @ + 1, !.lastEvent = "call_agent"]
         IN  /\ d.kind = "call_agent" => delegations[q] < MaxPlans
             /\ IF d.kind = "call_agent"
                THEN IF CacheHit(agent_info_cache, P.url)
                     THEN /\ UseCard(q, L1, agent_info_cache[P.url])
                          /\ UNCHANGED <<agent_info_cache, discoveries, cacheWrites>>
                     ELSE /\ SetLocal(q, [L1 EXCEPT !.pc = "discover"])
                          /\ discoveries' = [discoveries EXCEPT ![P.url] = @ + 1]
                          /\ UNCHANGED <<agent_info_cache, cacheWrites, sent>>
                ELSE /\ SetLocal(q,
                          CASE d.kind = "system_error" ->
                                 Finish(L, Returned(PyStr(SYSTEM_ERROR_TEXT)), "system_error")
                            [] d.kind = "parse_failure" -> Reprompt(L)
                            [] d.kind = "raise" -> Finish(L, Raised(d.exc), "raised")
                            [] d.kind = "final_answer" ->
                                 Finish(L, Returned(d.value.content), "final_answer")
                            [] d.kind = "no_action" -> NextTurn(L, "no_action"))
                     /\ UNCHANGED <<agent_info_cache, discoveries, cacheWrites, sent>>

\* mutant: the card is stored under every endpoint
CacheWrite_EveryEndpoint(cache, agent_url, agent_card_data) ==
    [u \in DOMAIN cache |-> agent_card_data]

\* mutant: the cache is replaced by a dict that holds the new entry only
CacheWrite_ReplacesAll(cache, agent_url, agent_card_data) ==
    [u \in DOMAIN cache |-> IF u = agent_url THEN agent_card_data ELSE Missing]

\* lines 75-77: self._agent_info_cache[agent_url] = agent_card_response.json()
CacheWrite(cache, agent_url, agent_card_data) ==
    [cache EXCEPT ![agent_url] = agent_card_data]

\* the agent-card GET returns or raises: lines 72-101.  When AgentCard
\* raises on the body just fetched and cached, the exception leaves the
\* async with block of line 63, whose __aexit__ awaits the close of the
\* connection the GET used: the invocation is suspended once more (pc
\* "close") with the exception pending, and ClientCloses ends the call.
\* The other exits of the block write nothing shared before they return
DiscoveryReturns(q, Outcomes) ==
    /\ pc[q] = "discover"
    /\ UNCHANGED storeVars
    /\ \E o \in Outcomes :
         LET L == Local(q)
             json == ResponseJson(o.body, L.plan.url)
         IN  IF o.raises
             THEN /\ SetLocal(q, AppendResult(L, CallRaised("get", MSG_CONNECT)))
                  /\ UNCHANGED <<agent_info_cache, cacheWrites, sent>>
             ELSE IF ~json.ok
             THEN /\ SetLocal(q, AppendResult(L, CallRaised("json", MSG_JSON)))
                  /\ UNCHANGED <<agent_info_cache, cacheWrites, sent>>
             ELSE /\ agent_info_cache' = CacheWrite(agent_info_cache, L.plan.url, json.value)
                  /\ cacheWrites' = [cacheWrites EXCEPT ![L.plan.url] = @ + 1]
                  /\ IF AgentCard(json.value).ok
                     THEN UseCard(q, L, json.value)
                     ELSE /\ SetLocal(q, [L EXCEPT
                                            !.pc = "close",
                                            !.lastCall =
                                                CallRaised("card", AgentCard(json.value).msg)])
                          /\ UNCHANGED sent
    /\ UNCHANGED discoveries

\* __aexit__ of the async with block of line 63 returns after AgentCard
\* raised: call_agent turns the exception into text (lines 165-166) and
\* process_query appends the two turns (258-259)
ClientCloses(q) ==
    /\ pc[q] = "close"
    /\ UNCHANGED storeVars
    /\ SetLocal(q, AppendResult(Local(q), lastCall[q]))
    /\ UNCHANGED <<agent_info_cache, discoveries, cacheWrites, sent>>

\* the reply stream of send_message ends or raises: lines 100-117
SendReturns(q, Outcomes) ==
    /\ pc[q] = "send"
    /\ UNCHANGED storeVars
    /\ \E o \in Outcomes :
         LET L == [Local(q) EXCEPT !.lastStream = o]
             r == ExtractText(o.responses)
         IN  SetLocal(q,
                 IF o.raises THEN AppendResult(L, CallRaised("send", MSG_READ_TIMEOUT))
                 ELSE IF r.how = "raise" THEN AppendResult(L, CallRaised("extract", r.text[1]))
                 ELSE AppendResult(L, CallReturned(r.how, r.text)))
    /\ UNCHANGED <<agent_info_cache, discoveries, cacheWrites, sent>>

\* the caller's deadline for invocation q passes while q is running.
\* process_query(self, user_query) takes no deadline and reads no clock, so
\* the expiry changes nothing the invocation looks at
DeadlineExpires(q) ==
    /\ pc[q] \in {"model", "discover", "close", "send"}
    /\ UNCHANGED storeVars
    /\ deadline[q] = "pending"
    /\ SetLocal(q, [Local(q) EXCEPT !.deadline = "expired"])
    /\ UNCHANGED <<agent_info_cache, discoveries, cacheWrites, sent>>

(***************************************************************************)
(* The customer-data store: the operations of mcp_server.py and of         *)
(* mcp_server/db.py on the customers and tickets tables.  An operation is  *)
(* an operator from the tables and its arguments to the tables after it    *)
(* and its outcome.  A str argument is a sequence of tokens; None is the   *)
(* token sequence <<"None">> of type "None".                               *)
(***************************************************************************)
CustomerIds == 1..NCustomers

\* a row of customers and a row of tickets
CustomerRow(name, email, phone, status, updated_at) ==
    [name |-> name, email |-> email, phone |-> phone, status |-> status,
     updated_at |-> updated_at]
TicketRow(id, customer_id, issue, status, priority) ==
    [id |-> id, customer_id |-> customer_id, issue |-> issue, status |-> status,
     priority |-> priority]

\* an argument: None, a str, or a value of another type
None == [type |-> "None", s |-> <<>>]
IsNone(arg) == arg.type = "None"

\* what an operation returned or raised.  A dict is given by its keys, the
\* value of its key success (if it has one), and the ids of the rows it holds
Returns(type, keys, success, rows) ==
    [kind |-> "return", type |-> type, keys |-> keys, success |-> success, rows |-> rows]
Raises(exc) ==
    [kind |-> "raise", type |-> exc, keys |-> {}, success |-> FALSE, rows |-> {}]
NoResult == [kind |-> "none", type |-> "", keys |-> {}, success |-> FALSE, rows |-> {}]

\* the envelopes of mcp_server.py
Success(keys, rows) == Returns("dict", {"success"} \cup keys, TRUE, rows)
Failure == Returns("dict", {"success", "error"}, FALSE, {})

\* the tables after an operation, its outcome, and the connections of
\* mcp_server.py's get_db_connection that it opened and did not close
Done(cs, ts, r) == [customers |-> cs, tickets |-> ts, result |-> r, open |-> 0]
\* the same for a return path of mcp_server.py without conn.close()
Unclosed(cs, ts, r) == [Done(cs, ts, r) EXCEPT !.open = 1]

\* name.strip(): str.strip() of the name
StripBlanks(text) == Strip(text)

\* the ids of the tickets of a customer
TicketsOf(ts, customer_id) == {ts[k].id : k \in {j \in 1..Len(ts) : ts[j].customer_id = customer_id}}

\* a get_customer that records the read in the row it returns
get_customer_TouchesRow(cs, ts, fault, customer_id) ==
    IF fault = "statement" THEN Unclosed(cs, ts, Failure)
    ELSE IF customer_id \in DOMAIN cs
    THEN Done([cs EXCEPT ![customer_id].updated_at = "CURRENT_TIMESTAMP"], ts,
              Success({"customer"}, {customer_id}))
    ELSE Done(cs, ts, Failure)

\* mcp_server.py get_customer: fault says whether a statement raises
\* sqlite3.Error and which one: none ("none"), the first one of the call
\* ("statement"), or the SELECT that follows conn.commit() in a write
\* ("after_commit"; a read has no such statement).  The except clause turns
\* the exception into an envelope and returns without conn.close()
get_customer(cs, ts, fault, customer_id) ==
    IF fault = "statement" THEN Unclosed(cs, ts, Failure)
    ELSE IF customer_id \in DOMAIN cs THEN Done(cs, ts, Success({"customer"}, {customer_id}))
    ELSE Done(cs, ts, Failure)

\* mcp_server.py list_customers: the rows are given by their ids (ORDER BY
\* name is not modelled); the return for a status that is neither 'active'
\* nor 'disabled' comes before conn.close()
list_customers(cs, ts, fault, status) ==
    IF fault = "statement" THEN Unclosed(cs, ts, Failure)
    ELSE IF ~IsNone(status) /\ status.s # <<>>
    THEN IF status.s \notin {<<"active">>, <<"disabled">>}
         THEN Unclosed(cs, ts, Failure)
         ELSE Done(cs, ts, Success({"count", "customers"},
                                   {id \in DOMAIN cs : cs[id].status = status.s}))
    ELSE Done(cs, ts, Success({"count", "customers"}, DOMAIN cs))

\* mcp_server.py get_customer_history
get_customer_history(cs, ts, fault, customer_id) ==
    IF fault = "statement" THEN Unclosed(cs, ts, Failure)
    ELSE Done(cs, ts, Success({"count", "history"}, TicketsOf(ts, customer_id)))

\* mcp_server.py update_customer: name.strip() raises AttributeError for a
\* name that is no str, inside the try
update_customer(cs, ts, fault, customer_id, name, email, phone) ==
    IF fault = "statement" THEN Unclosed(cs, ts, Failure)
    ELSE IF customer_id \notin DOMAIN cs THEN Done(cs, ts, Failure)
    ELSE IF ~IsNone(name) /\ name.type # "str" THEN Unclosed(cs, ts, Failure)
    ELSE IF IsNone(name) /\ IsNone(email) /\ IsNone(phone) THEN Done(cs, ts, Failure)
    ELSE LET old == cs[customer_id]
             new == CustomerRow(IF IsNone(name) THEN old.name ELSE StripBlanks(name.s),
                                IF IsNone(email) THEN old.email ELSE email.s,
                                IF IsNone(phone) THEN old.phone ELSE phone.s,
                                old.status, "CURRENT_TIMESTAMP")
         IN  IF fault = "after_commit"
             THEN Unclosed([cs EXCEPT ![customer_id] = new], ts, Failure)
             ELSE Done([cs EXCEPT ![customer_id] = new], ts,
                       Success({"message", "customer"}, {customer_id}))

\* mcp_server.py create_ticket
create_ticket(cs, ts, fault, customer_id, issue, priority) ==
    IF fault = "statement" THEN Unclosed(cs, ts, Failure)
    ELSE IF customer_id \notin DOMAIN cs THEN Done(cs, ts, Failure)
    ELSE LET ticket_id == Len(ts) + 1
             added == Append(ts, TicketRow(ticket_id, customer_id, issue, "open", priority))
         IN  IF fault = "after_commit"
             THEN Unclosed(cs, added, Failure)
             ELSE Done(cs, added, Success({"ticket"}, {ticket_id}))

\* db.py: a key that the dict data does not hold
Absent == [type |-> "absent", s |-> <<>>]
Str(text) == [type |-> "str", s |-> text]

\* SQL NULL, which sqlite3 gives back as None
NULL == "None"

\* the layout of the tables.  No file of src/ creates them: the statements
\* of the two modules name the columns id, name, email, phone, status and
\* updated_at of customers and id, customer_id, issue, status, priority and
\* created_at of tickets, and leave open whether customers has more columns
\* (created_at) and what a ticket's status is when an INSERT does not give it
\* (the DEFAULT of the column, NULL if it has none)
Schema(customers_created_at, ticket_status_default) ==
    [customers_created_at |-> customers_created_at,
     ticket_status_default |-> ticket_status_default]
Schemas == {Schema(created_at, default) : created_at \in BOOLEAN, default \in {"open", NULL}}

\* the keys of dict(row) for SELECT * FROM customers: the columns of the table
CustomerKeys(sc) ==
    {"id", "name", "email", "phone", "status", "updated_at"}
        \cup (IF sc.customers_created_at THEN {"created_at"} ELSE {})
\* the keys of a tickets row that the code names
TicketKeys == {"id", "customer_id", "issue", "status", "priority", "created_at"}

\* ORDER BY id LIMIT limit: sqlite takes a limit below zero as no limit
FirstIds(ids, limit) ==
    IF limit < 0 THEN ids
    ELSE {id \in ids : Cardinality({j \in ids : j < id}) < limit}

\* db.py get_customer: the row as a dict, or None; an sqlite3.Error is not caught
db_get_customer(cs, ts, fault, sc, customer_id) ==
    IF fault = "statement" THEN Done(cs, ts, Raises("OperationalError"))
    ELSE IF customer_id \in DOMAIN cs
    THEN Done(cs, ts, Returns("dict", CustomerKeys(sc), FALSE, {customer_id}))
    ELSE Done(cs, ts, Returns("NoneType", {}, FALSE, {}))

\* db.py list_customers: a list of rows; status is not validated
db_list_customers(cs, ts, fault, status, limit) ==
    IF fault = "statement" THEN Done(cs, ts, Raises("OperationalError"))
    ELSE IF ~IsNone(status) /\ status.s # <<>>
    THEN Done(cs, ts, Returns("list", {}, FALSE,
                              FirstIds({id \in DOMAIN cs : cs[id].status = status.s}, limit)))
    ELSE Done(cs, ts, Returns("list", {}, FALSE, FirstIds(DOMAIN cs, limit)))

\* db.py update_customer: data is given by the values of the four keys the
\* code accepts and of one key it does not (other)
db_update_customer(cs, ts, fault, sc, customer_id, data) ==
    LET fields == {k \in {"name", "email", "phone", "status"} : data[k] # Absent} IN
    IF fields = {} THEN Done(cs, ts, Raises("ValueError"))
    ELSE IF fault = "statement" THEN Done(cs, ts, Raises("OperationalError"))
    ELSE IF customer_id \notin DOMAIN cs
    THEN Done(cs, ts, Raises(IF fault = "after_commit"
                             THEN "OperationalError" ELSE "ValueError"))
    ELSE LET old == cs[customer_id]
             new == CustomerRow(IF "name" \in fields THEN data.name.s ELSE old.name,
                                IF "email" \in fields THEN data.email.s ELSE old.email,
                                IF "phone" \in fields THEN data.phone.s ELSE old.phone,
                                IF "status" \in fields THEN data.status.s ELSE old.status,
                                old.updated_at)
         IN  IF fault = "after_commit"
             THEN Done([cs EXCEPT ![customer_id] = new], ts, Raises("OperationalError"))
             ELSE Done([cs EXCEPT ![customer_id] = new], ts,
                       Returns("dict", CustomerKeys(sc), FALSE, {customer_id}))

\* db.py create_ticket: the INSERT gives customer_id, issue and priority
\* only, so the status of the row is what the table gives a ticket without
\* one; the customer is not looked up
db_create_ticket(cs, ts, fault, sc, customer_id, issue, priority) ==
    IF fault = "statement" THEN Done(cs, ts, Raises("OperationalError"))
    ELSE LET ticket_id == Len(ts) + 1
             added == Append(ts, TicketRow(ticket_id, customer_id, issue,
                                           sc.ticket_status_default, priority))
         IN  IF fault = "after_commit"
             THEN Done(cs, added, Raises("OperationalError"))
             ELSE Done(cs, added, Returns("dict", TicketKeys, FALSE, {ticket_id}))

\* db.py get_customer_history: a list of rows
db_get_customer_history(cs, ts, fault, customer_id) ==
    IF fault = "statement" THEN Done(cs, ts, Raises("OperationalError"))
    ELSE Done(cs, ts, Returns("list", {}, FALSE, TicketsOf(ts, customer_id)))

\* the operation that ran last: its module, its name, its customer_id (0 for
\* list_customers) and, for update_customer, the fields it was given to set
Op(impl, name, customer_id) ==
    [impl |-> impl, name |-> name, customer_id |-> customer_id, fields |-> {}]
UpdateOp(impl, customer_id, fields) ==
    [Op(impl, "update_customer", customer_id) EXCEPT !.fields = fields]
\* the parameters of mcp_server.py update_customer that are not None
GivenFields(name, email, phone) ==
    {k \in {"name", "email", "phone"} :
        ~IsNone([name |-> name, email |-> email, phone |-> phone][k])}
\* the keys of data that db.py update_customer accepts
ValidFields(data) == {k \in {"name", "email", "phone", "status"} : data[k] # Absent}
NoOp == Op("", "", 0)

\* one call of an operation: its effect on the tables and what the caller gets
Call(done) ==
    /\ customers' = done.customers
    /\ tickets' = done.tickets
    /\ schema' = schema
    /\ opResult' = done.result
    /\ openConnections + done.open <= MaxOpen
    /\ openConnections' = openConnections + done.open

McpGetCustomer(ids, faults) ==
    \E customer_id \in ids, fault \in faults :
        /\ Call(get_customer(customers, tickets, fault, customer_id))
        /\ lastOp' = Op("mcp_server.py", "get_customer", customer_id)
        /\ UNCHANGED <<routerVars, mcpVars>>

McpListCustomers(statuses, faults) ==
    \E status \in statuses, fault \in faults :
        /\ Call(list_customers(customers, tickets, fault, status))
        /\ lastOp' = Op("mcp_server.py", "list_customers", 0)
        /\ UNCHANGED <<routerVars, mcpVars>>

McpGetCustomerHistory(ids, faults) ==
    \E customer_id \in ids, fault \in faults :
        /\ Call(get_customer_history(customers, tickets, fault, customer_id))
        /\ lastOp' = Op("mcp_server.py", "get_customer_history", customer_id)
        /\ UNCHANGED <<routerVars, mcpVars>>

McpUpdateCustomer(ids, updates, faults) ==
    \E customer_id \in ids, update \in updates, fault \in faults :
        /\ Call(update_customer(customers, tickets, fault, customer_id,
                                update.name, update.email, update.phone))
        /\ lastOp' = UpdateOp("mcp_server.py", customer_id,
                               GivenFields(update.name, update.email, update.phone))
        /\ UNCHANGED <<routerVars, mcpVars>>

McpCreateTicket(ids, issues, priorities, faults) ==
    /\ Len(tickets) < MaxTickets
    /\ \E customer_id \in ids, issue \in issues, priority \in priorities, fault \in faults :
        /\ Call(create_ticket(customers, tickets, fault, customer_id, issue, priority))
        /\ lastOp' = Op("mcp_server.py", "create_ticket", customer_id)
        /\ UNCHANGED <<routerVars, mcpVars>>

DbGetCustomer(ids, faults) ==
    \E customer_id \in ids, fault \in faults :
        /\ Call(db_get_customer(customers, tickets, fault, schema, customer_id))
        /\ lastOp' = Op("db.py", "get_customer", customer_id)
        /\ UNCHANGED <<routerVars, mcpVars>>

DbListCustomers(statuses, limits, faults) ==
    \E status \in statuses, limit \in limits, fault \in faults :
        /\ Call(db_list_customers(customers, tickets, fault, status, limit))
        /\ lastOp' = Op("db.py", "list_customers", 0)
        /\ UNCHANGED <<routerVars, mcpVars>>

DbGetCustomerHistory(ids, faults) ==
    \E customer_id \in ids, fault \in faults :
        /\ Call(db_get_customer_history(customers, tickets, fault, customer_id))
        /\ lastOp' = Op("db.py", "get_customer_history", customer_id)
        /\ UNCHANGED <<routerVars, mcpVars>>

DbUpdateCustomer(ids, datas, faults) ==
    \E customer_id \in ids, data \in datas, fault \in faults :
        /\ Call(db_update_customer(customers, tickets, fault, schema, customer_id, data))
        /\ lastOp' = UpdateOp("db.py", customer_id, ValidFields(data))
        /\ UNCHANGED <<routerVars, mcpVars>>

DbCreateTicket(ids, issues, priorities, faults) ==
    /\ Len(tickets) < MaxTickets
    /\ \E customer_id \in ids, issue \in issues, priority \in priorities, fault \in faults :
        /\ Call(db_create_ticket(customers, tickets, fault, schema, customer_id, issue,
                                priority))
        /\ lastOp' = Op("db.py", "create_ticket", customer_id)
        /\ UNCHANGED <<routerVars, mcpVars>>

\* a JSON-RPC message, given by the keys the code reads; id and method are
\* "None" when the message does not hold the key (message.get)
Message(id, method, params) == [id |-> id, method |-> method, params |-> params]

\* the value of the key params: a dict (type "dict") given by its keys name
\* and arguments, no key at all (type "absent"), or a value of another type
Params(type, name, arguments) == [type |-> type, name |-> name, arguments |-> arguments]
\* the value of the key arguments: a dict (type "dict") given by its keys and
\* their values, no key at all (type "absent"), or a value of another type
Arguments(type, keys, values) == [type |-> type, keys |-> keys, values |-> values]
Values(customer_id, status, name, email, phone, issue, priority) ==
    [customer_id |-> customer_id, status |-> status, name |-> name, email |-> email,
     phone |-> phone, issue |-> issue, priority |-> priority]
NoArguments == Arguments("absent", {}, Values(0, None, None, None, None, "", ""))
NoParams == Params("absent", None, NoArguments)
NoMessage == Message("", "", NoParams)

\* what process_mcp_message gives back: a response with the key result
\* (kind "result"), one with the key error and its code (kind "error"), or
\* an exception that leaves the function (kind "raise")
Response(kind, id, code, exc) == [kind |-> kind, id |-> id, code |-> code, exc |-> exc]
NoResponse == Response("none", "", 0, "")
ResultResponse(id) == Response("result", id, 0, "")
ErrorResponse(id, code) == Response("error", id, code, "")
Escapes(exc) == Response("raise", "", 0, exc)

\* the response, the operation that ran (NoOp if none did) and its effect
Handled(response, op, done) == [response |-> response, op |-> op, done |-> done]

\* the types of a name that cannot be hashed: the lookup in tool_functions
\* raises TypeError for them
Unhashable == {"list", "dict"}

\* the keys of tool_functions, and the parameters of each function: all of
\* them, and those without a default
ToolNames == {"get_customer", "list_customers", "update_customer", "create_ticket",
              "get_customer_history"}
ToolParameters(tool) ==
    CASE tool = "get_customer" -> {"customer_id"}
      [] tool = "list_customers" -> {"status"}
      [] tool = "get_customer_history" -> {"customer_id"}
      [] tool = "update_customer" -> {"customer_id", "name", "email", "phone"}
      [] tool = "create_ticket" -> {"customer_id", "issue", "priority"}
ToolRequired(tool) ==
    CASE tool = "get_customer" -> {"customer_id"}
      [] tool = "list_customers" -> {}
      [] tool = "get_customer_history" -> {"customer_id"}
      [] tool = "update_customer" -> {"customer_id"}
      [] tool = "create_ticket" -> {"customer_id", "issue", "priority"}

\* tool_functions[tool_name](**arguments) once the arguments are bound: a
\* parameter the arguments do not name takes its default, None
RunTool(cs, ts, fault, tool, arguments) ==
    LET Arg(key) == IF key \in arguments.keys THEN arguments.values[key] ELSE None IN
    CASE tool = "get_customer" ->
             get_customer(cs, ts, fault, arguments.values.customer_id)
      [] tool = "list_customers" -> list_customers(cs, ts, fault, Arg("status"))
      [] tool = "get_customer_history" ->
             get_customer_history(cs, ts, fault, arguments.values.customer_id)
      [] tool = "update_customer" ->
             update_customer(cs, ts, fault, arguments.values.customer_id,
                             Arg("name"), Arg("email"), Arg("phone"))
      [] tool = "create_ticket" ->
             create_ticket(cs, ts, fault, arguments.values.customer_id,
                           arguments.values.issue, arguments.values.priority)

\* mcp_server.py handle_tools_call.  params.get raises AttributeError for a
\* params that is no dict, and the lookup of a name that cannot be hashed
\* (a list, a dict) raises TypeError, both before the try; the call raises
\* TypeError, inside the try, for arguments that are no mapping or do not
\* fit the parameters
handle_tools_call(cs, ts, fault, message) ==
    LET params == message.params
        tool_name == IF params.type = "absent" THEN None ELSE params.name
        arguments == IF params.type = "absent" \/ params.arguments.type = "absent"
                     THEN Arguments("dict", {}, NoArguments.values)
                     ELSE params.arguments
        tool == tool_name.s[1]
        Arg(key) == IF key \in arguments.keys THEN arguments.values[key] ELSE None
    IN  IF params.type \notin {"absent", "dict"}
        THEN Handled(Escapes("AttributeError"), NoOp, Done(cs, ts, NoResult))
        ELSE IF tool_name.type \in Unhashable
        THEN Handled(Escapes("TypeError"), NoOp, Done(cs, ts, NoResult))
        ELSE IF tool_name.type # "str" \/ tool \notin ToolNames
        THEN Handled(ErrorResponse(message.id, -32601), NoOp, Done(cs, ts, NoResult))
        ELSE IF \/ arguments.type # "dict"
                \/ ~(ToolRequired(tool) \subseteq arguments.keys)
                \/ ~(arguments.keys \subseteq ToolParameters(tool))
        THEN Handled(ErrorResponse(message.id, -32603), NoOp, Done(cs, ts, NoResult))
        ELSE Handled(ResultResponse(message.id),
                     IF tool = "update_customer"
                     THEN UpdateOp("mcp_server.py", arguments.values.customer_id,
                                   GivenFields(Arg("name"), Arg("email"), Arg("phone")))
                     ELSE Op("mcp_server.py", tool,
                             IF "customer_id" \in arguments.keys
                             THEN arguments.values.customer_id ELSE 0),
                     RunTool(cs, ts, fault, tool, arguments))

\* mcp_server.py process_mcp_message
process_mcp_message(cs, ts, fault, message) ==
    IF message.method \in {"initialize", "tools/list"}
    THEN Handled(ResultResponse(message.id), NoOp, Done(cs, ts, NoResult))
    ELSE IF message.method = "tools/call" THEN handle_tools_call(cs, ts, fault, message)
    ELSE Handled(ErrorResponse(message.id, -32601), NoOp, Done(cs, ts, NoResult))

ProcessMcpMessage(requests, faults) ==
    \E message \in requests, fault \in faults :
        LET handled == process_mcp_message(customers, tickets, fault, message) IN
        /\ Len(handled.done.tickets) <= MaxTickets
        /\ Call(handled.done)
        /\ lastOp' = handled.op
        /\ mcpRequest' = message
        /\ mcpResponse' = handled.response
        /\ UNCHANGED routerVars

(***************************************************************************)
(* The environment                                                         *)
(***************************************************************************)
\* the arguments of the customer-data operations: the ids the table holds and
\* one it does not; the statement of the call that raises sqlite3.Error
SomeIds == 1..(NCustomers + 1)
Faults == {"none", "statement", "after_commit"}
\* a read has no statement after a commit
ReadFaults == {"none", "statement"}
Statuses == {None, Str(<<>>), Str(<<"active">>), Str(<<"disabled">>), Str(<<"bogus">>)}
Update(name, email, phone) == [name |-> name, email |-> email, phone |-> phone]
Updates == {Update(None, None, None),
            Update(Str(<<" ", "Ada", " ">>), None, Str(<<"222">>)),
            Update([type |-> "int", s |-> <<>>], None, None)}
Limits == {-1, 1}
Issues == {"broken"}
Priorities == {"high"}
Data(name, email, phone, status, other) ==
    [name |-> name, email |-> email, phone |-> phone, status |-> status, other |-> other]
Datas == {Data(Absent, Absent, Absent, Absent, Absent),
          Data(Absent, Absent, Absent, Absent, Str(<<"1">>)),
          Data(Absent, Absent, Absent, Str(<<"disabled">>), Str(<<"1">>))}

\* the messages process_mcp_message is given: with and without an id, the
\* three methods, another one and none; params a dict, absent, a list and
\* null; a tool the server has, one it does not, no name, a name that is a
\* list or a dict; arguments that fit, that miss a required key, that hold a key the
\* function does not take, that are absent and that are a list
McpIds == {"7", "None"}
Tool(name, keys, customer_id, status, name_value) ==
    Params("dict", Str(<<name>>),
           Arguments("dict", keys,
                     Values(customer_id, status, name_value, None, None, "broken", "high")))
McpParams(method) ==
    IF method = "tools/call"
    THEN {NoParams,
          Params("list", None, NoArguments),
          Params("NoneType", None, NoArguments),
          Params("dict", None, NoArguments),
          Params("dict", [type |-> "list", s |-> <<>>], NoArguments),
          Params("dict", [type |-> "dict", s |-> <<>>], NoArguments),
          Tool("delete_customer", {"customer_id"}, 1, None, None),
          Params("dict", Str(<<"get_customer">>), NoArguments),
          Params("dict", Str(<<"get_customer">>),
                 Arguments("list", {}, NoArguments.values)),
          Tool("get_customer", {}, 0, None, None),
          Tool("get_customer", {"customer_id", "verbose"}, 1, None, None),
          Tool("list_customers", {"status"}, 0, Str(<<"bogus">>), None),
          Tool("get_customer_history", {"customer_id"}, 1, None, None),
          Tool("update_customer", {"customer_id"}, 1, None, None),
          Tool("update_customer", {"customer_id", "name"}, 1, None, Str(<<"Ada">>)),
          Tool("create_ticket", {"customer_id", "issue"}, 1, None, None)}
         \cup {Tool("get_customer", {"customer_id"}, id, None, None) : id \in SomeIds}
         \cup {Tool("create_ticket", {"customer_id", "issue", "priority"}, id, None, None) :
                   id \in SomeIds}
    ELSE {NoParams, Params("list", None, NoArguments)}
McpMessages ==
    UNION {{Message(id, method, params) : id \in McpIds, params \in McpParams(method)} :
              method \in {"initialize", "tools/list", "tools/call", "resources/list", "None"}}

UserQueries == {"Get customer 42"}

Fenced(text) == <<FENCE_JSON, NL>> \o text \o <<NL, FENCE>>
\* the same with the opening marker that names no language
BareFenced(text) == <<FENCE, NL>> \o text \o <<NL, FENCE>>

FINAL_N == <<HEAD_FINAL, "N", TAIL>>
\* plans whose content holds fence markers
FINAL_FENCES == <<HEAD_FINAL, FENCE_JSON, "N", FENCE, TAIL>>
CALL_DATA_FENCES == <<HEAD_CALL_DATA, FENCE, "M", FENCE_JSON, TAIL>>
\* a final answer whose content is a digit, and a number of two digits
FINAL_DIGIT == <<HEAD_FINAL, DOC_NUMBER, TAIL>>
TWO_DIGITS == <<DOC_NUMBER, DOC_NUMBER>>
CALL_DATA_M == <<HEAD_CALL_DATA, "M", TAIL>>
CALL_SUPPORT_M == <<HEAD_CALL_SUPPORT, "M", TAIL>>
CALL_BILLING_M == <<HEAD_CALL_BILLING, "M", TAIL>>
WAIT_M == <<HEAD_WAIT, "M", TAIL>>
NOT_JSON == <<"not json">>

\* replies of the model that are well-formed plans, or its failure
PlanReplies ==
    {ModelRaises, Reply(FINAL_N), Reply(CALL_DATA_M), Reply(CALL_SUPPORT_M),
     Reply(CALL_BILLING_M)}

\* every kind of reply
AllReplies ==
    PlanReplies \cup
    {Reply(NOT_JSON), Reply(Fenced(NOT_JSON)), Reply(Fenced(FINAL_N)),
     Reply(Fenced(CALL_DATA_M)), Reply(WAIT_M)}
    \cup {Reply(<<doc>>) : doc \in Docs}

\* replies of the model without fence markers around them
PlainTexts ==
    {FINAL_N, CALL_DATA_M, CALL_SUPPORT_M, CALL_BILLING_M, WAIT_M, NOT_JSON,
     FINAL_FENCES, CALL_DATA_FENCES, FINAL_DIGIT, TWO_DIGITS}
    \cup {<<doc>> : doc \in Docs}

\* replies of the model received by invocation q so far
Received(q) ==
    IF pc[q] = "idle" THEN 0 ELSE IF pc[q] = "model" THEN i[q] ELSE i[q] + 1

\* invocation 1 gets its replies without markers and invocation 2 gets the
\* same replies, one behind, with markers around them
UnfencedReplies ==
    IF Received(1) # Received(2) THEN {}
    ELSE IF i[1] < MaxCalls THEN {Reply(text) : text \in PlainTexts}
    ELSE {Reply(FINAL_N)}
FencedReplies ==
    IF Received(2) + 1 # Received(1) THEN {}
    ELSE {Reply(Fenced(lastReply[1].text)), Reply(BareFenced(lastReply[1].text))}

GetRaises == [raises |-> TRUE, body |-> ""]
GetBody(body) == [raises |-> FALSE, body |-> body]

GoodTask == Task(FALSE, <<<<Part(TRUE, "Ada Lovelace")>>>>)
StreamRaises == [raises |-> TRUE, responses |-> <<>>]
\* the stream raises after it gave some units
StreamFails(responses) == [raises |-> TRUE, responses |-> responses]
OtherTask == Task(FALSE, <<<<Part(TRUE, "N")>>>>)
Stream(responses) == [raises |-> FALSE, responses |-> responses]

\* the agents under Spec: an agent is unreachable, or it answers with a text
FewDiscoveries == {GetRaises, GetBody("card")}
FewStreams == {Stream(<<Unit(TRUE, GoodTask)>>)}

\* every kind of answer to the agent-card request and to send_message
AllDiscoveries ==
    {GetRaises, GetBody("not json"), GetBody("null"), GetBody("[]"), GetBody("{}"),
     GetBody("card")}
AllStreams ==
    {StreamRaises, Stream(<<>>),
     Stream(<<Unit(FALSE, Task(TRUE, <<>>))>>),
     Stream(<<Unit(TRUE, GoodTask)>>),
     Stream(<<Unit(TRUE, Task(TRUE, <<>>))>>),
     Stream(<<Unit(TRUE, Task(FALSE, <<>>))>>),
     Stream(<<Unit(TRUE, Task(FALSE, <<<<>>>>))>>),
     Stream(<<Unit(TRUE, Task(FALSE, <<<<Part(FALSE, "")>>>>))>>),
     Stream(<<Unit(TRUE, Task(FALSE, <<>>)), Unit(TRUE, GoodTask)>>),
     Stream(<<Unit(TRUE, GoodTask), Unit(TRUE, OtherTask)>>),
     Stream(<<Unit(FALSE, Task(TRUE, <<>>)), Unit(TRUE, GoodTask)>>),
     Stream(<<EmptyTuple, Unit(TRUE, GoodTask)>>),
     StreamFails(<<Unit(TRUE, GoodTask)>>)}

\* concurrent invocations: invocation q is called with its own user query, and
\* the agent's answer to the message of invocation q is a text of its own
UserQueryOf(q) == ToString(q)
AnswerTo(q) == ToString(q)
\* the model asks for at most MaxConcCalls delegations over all the invocations
RECURSIVE SumTo(_, _)
SumTo(f, n) == IF n = 0 THEN 0 ELSE f[n] + SumTo(f, n - 1)
ConcReplies ==
    IF SumTo(delegations, NQueries) < MaxConcCalls
    THEN {Reply(FINAL_N), Reply(CALL_DATA_M), Reply(CALL_SUPPORT_M)}
    ELSE {Reply(FINAL_N)}
ConcDiscoveries ==
    {GetRaises, GetBody("not json"), GetBody("null"), GetBody("{}"), GetBody("card")}
ConcStreams(q) == {Stream(<<Unit(TRUE, Task(FALSE, <<<<Part(TRUE, AnswerTo(q))>>>>))>>)}

\* the model of the termination check: it gives unparsable text for some
\* turns, then asks for delegations, each as long as the budget lasts, and
\* at any turn it may fail or give the final answer
LiveReplies ==
    {ModelRaises, Reply(FINAL_N), Reply(CALL_DATA_M)}
    \cup (IF delegations[1] = 0 THEN {Reply(NOT_JSON), Reply(Fenced(NOT_JSON))} ELSE {})

\* the model of the frame check: every way a turn can end, and calls to
\* both endpoints
FrameReplies ==
    {ModelRaises, Reply(FINAL_N), Reply(CALL_DATA_M), Reply(CALL_SUPPORT_M),
     Reply(NOT_JSON), Reply(WAIT_M)}

(***************************************************************************)
(* Specifications                                                          *)
(***************************************************************************)
\* the state after construction, on a database with one of the layouts
InitOn(schemas) ==
    /\ pc = [q \in Queries |-> "idle"]
    /\ messages = [q \in Queries |-> <<>>]
    /\ i = [q \in Queries |-> 0]
    /\ plan = [q \in Queries |-> NoPlan]
    /\ outcome = [q \in Queries |-> Running]
    /\ modelCalls = [q \in Queries |-> 0]
    /\ delegations = [q \in Queries |-> 0]
    /\ reprompts = [q \in Queries |-> 0]
    /\ lastEvent = [q \in Queries |-> "none"]
    /\ lastCall = [q \in Queries |-> NoCall]
    /\ lastReply = [q \in Queries |-> NoReply]
    /\ deadline = [q \in Queries |-> "pending"]
    /\ lastStream = [q \in Queries |-> Stream(<<>>)]
    /\ customers = [id \in CustomerIds |->
                       CustomerRow(<<"Grace">>, <<"g@x">>, <<"111">>, <<"active">>, "t0")]
    /\ tickets = <<>>
    /\ schema \in schemas
    /\ opResult = NoResult
    /\ lastOp = NoOp
    /\ openConnections = 0
    /\ mcpRequest = NoMessage
    /\ mcpResponse = NoResponse
    /\ agent_info_cache = [u \in Urls |-> Missing]
    /\ discoveries = [u \in Urls |-> 0]
    /\ cacheWrites = [u \in Urls |-> 0]
    /\ sent = <<>>

\* the router does not use the database, and mcp_server.py gives every
\* column of the rows it writes, so what they do is the same on every layout
Init == InitOn({Schema(FALSE, "open")})
\* the operations of both modules on every layout
InitStore == InitOn(Schemas)

\* one invocation, every kind of model reply
Next ==
    \/ StartQuery(1, UserQueries)
    \/ ModelReturns(1, AllReplies, MaxDelegations)
    \/ DiscoveryReturns(1, FewDiscoveries)
    \/ SendReturns(1, FewStreams)

Spec == Init /\ [][Next]_vars

\* one invocation whose plans are well formed, every kind of agent behaviour
NextAgents ==
    \/ StartQuery(1, UserQueries)
    \/ ModelReturns(1, PlanReplies, MaxCalls)
    \/ DiscoveryReturns(1, AllDiscoveries)
    \/ ClientCloses(1)
    \/ SendReturns(1, AllStreams)

SpecAgents == Init /\ [][NextAgents]_vars

\* process_query invocations running concurrently on one orchestrator and one
\* client: each action is the code between two awaits, and the event loop runs
\* the invocations' actions in any order
NextConc ==
    \E q \in Queries :
        \/ StartQuery(q, {UserQueryOf(q)})
        \/ ModelReturns(q, ConcReplies, MaxConcCalls)
        \/ DiscoveryReturns(q, ConcDiscoveries)
        \/ ClientCloses(q)
        \/ SendReturns(q, ConcStreams(q))

SpecConc == Init /\ [][NextConc]_vars

\* one invocation and the clock of its caller
NextDeadline ==
    \/ StartQuery(1, UserQueries)
    \/ ModelReturns(1, PlanReplies, MaxCalls)
    \/ DiscoveryReturns(1, FewDiscoveries)
    \/ SendReturns(1, FewStreams)
    \/ DeadlineExpires(1)

SpecDeadline == Init /\ [][NextDeadline]_vars

\* one invocation whose every model call and delegation call returns or fails
\* in the end: the awaits of lines 229, 72 and 100 do not hang
NextLive ==
    \/ StartQuery(1, UserQueries)
    \/ ModelReturns(1, LiveReplies, max_turns)
    \/ DiscoveryReturns(1, FewDiscoveries)
    \/ SendReturns(1, FewStreams)

SpecLive ==
    /\ Init /\ [][NextLive]_vars
    /\ WF_vars(ModelReturns(1, LiveReplies, max_turns))
    /\ WF_vars(DiscoveryReturns(1, FewDiscoveries))
    /\ WF_vars(SendReturns(1, FewStreams))

\* two invocations of the same query: the second gets the replies of the first
\* with fence markers around them; agents that answer
NextFence ==
    \/ \E q \in 1..2 : StartQuery(q, UserQueries)
    \/ ModelReturns(1, UnfencedReplies, MaxCalls)
    \/ ModelReturns(2, FencedReplies, MaxCalls)
    \/ \E q \in 1..2 : DiscoveryReturns(q, {GetBody("card")})
    \/ \E q \in 1..2 : SendReturns(q, FewStreams)

SpecFence == Init /\ [][NextFence]_vars

\* the customer-data operations of both modules, on the ids the table holds
\* and one it does not
NextStore ==
    \/ McpGetCustomer(SomeIds, ReadFaults)
    \/ McpListCustomers(Statuses, ReadFaults)
    \/ McpGetCustomerHistory(SomeIds, ReadFaults)
    \/ McpUpdateCustomer(SomeIds, Updates, Faults)
    \/ McpCreateTicket(SomeIds, Issues, Priorities, Faults)
    \/ DbGetCustomer(SomeIds, ReadFaults)
    \/ DbListCustomers(Statuses, Limits, ReadFaults)
    \/ DbGetCustomerHistory(SomeIds, ReadFaults)
    \/ DbUpdateCustomer(SomeIds, Datas, Faults)
    \/ DbCreateTicket(SomeIds, Issues, Priorities, Faults)

SpecStore == InitStore /\ [][NextStore]_vars

\* the JSON-RPC endpoint of mcp_server.py: one message after another
NextMcp == ProcessMcpMessage(McpMessages, Faults)

SpecMcp == Init /\ [][NextMcp]_vars

\* one invocation that may call both endpoints and whose turns end in every
\* way: a call, a final answer, unparsable output, an action that is none
\* of the two, a failure of the model
NextFrame ==
    \/ StartQuery(1, UserQueries)
    \/ ModelReturns(1, FrameReplies, MaxCalls)
    \/ DiscoveryReturns(1, FewDiscoveries)
    \/ SendReturns(1, FewStreams)

SpecFrame == Init /\ [][NextFrame]_vars

(***************************************************************************)
(* Properties                                                              *)
(***************************************************************************)
KnownAgents == {"customer_data", "support_agent"}

IsPrefix(s, t) == Len(s) <= Len(t) /\ SubSeq(t, 1, Len(s)) = s

\* the step of invocation q at which its model call returns or raises
ModelStep(q) == pc[q] = "model" /\ (pc'[q] # "model" \/ i'[q] # i[q])

\* what json.loads gives for the cleaned text of a reply of the model
Loaded(reply) == JsonLoads(CleanText(reply.text))

\* the reply is a plan with all the fields of its action
WellFormedFinal(value) ==
    /\ value.type = "dict"
    /\ {"thought", "action", "content"} \subseteq value.has
    /\ value.action = "final_answer"

\* the sentinel of line 261 is returned after the last turn
Exhausted(q) ==
    /\ pc[q] = "done"
    /\ i[q] = max_turns - 1
    /\ outcome[q] = Returned(PyStr(MAX_TURNS_TEXT))

\* the invocation went on to its next turn, or the budget was spent
WentOn(q) == (pc[q] = "model" /\ outcome[q] = Running) \/ Exhausted(q)

\* nothing outside invocation q's own position changes in the step
NoCallsMade(q) ==
    /\ modelCalls'[q] = modelCalls[q]
    /\ delegations'[q] = delegations[q]
    /\ discoveries' = discoveries
    /\ sent' = sent
    /\ agent_info_cache' = agent_info_cache

\* C1: every invocation of process_query that ends has returned a str: it
\* never raises, whatever the model and the agents answer.
C1_ReturnsText ==
    \A q \in Queries :
        pc[q] = "done" => outcome[q].kind = "return" /\ outcome[q].value.type = "str"

ClientRaised == {"get", "json", "card", "send", "extract"}

\* C2 as stated: every failure inside create_task, a response of unexpected
\* shape included, gives a result that begins with "Error calling agent: ".
C2_EveryFailureHasThePrefix ==
    \A q \in Queries :
        (lastEvent[q] = "delegated" /\ lastCall[q].stage \in ClientRaised \cup {"render"})
        => lastCall[q].text[1] = ERROR_CALLING_AGENT

\* C2: every exception create_task raises (the agent-card request fails, its
\* body is no JSON or no valid card, send_message fails, the task has no
\* artifact list) is returned by call_agent as "Error calling agent: " followed
\* by the exception's text, that text is the result turn appended to history,
\* and the loop goes on to its next turn; a response whose first artifact or
\* part or text is missing is returned as str(task), without the prefix.
C2_ClientErrorsBecomeText ==
    \A q \in Queries :
        lastEvent[q] = "delegated" =>
            LET call == lastCall[q]
                last == messages[q][Len(messages[q])]
            IN  /\ call.stage \in ClientRaised =>
                     /\ Len(call.text) = 2
                     /\ call.text[1] = ERROR_CALLING_AGENT
                /\ call.stage = "render" => call.text[1] # ERROR_CALLING_AGENT
                /\ last.role = "user"
                /\ SubSeq(last.parts, 4, Len(last.parts)) = call.text
                /\ WentOn(q)

C2_Witness ==
    \E q \in Queries :
        /\ lastEvent[q] = "delegated"
        /\ lastCall[q].stage = "send"
        /\ pc[q] = "model"
        /\ delegations[q] = 1

\* C3: the model is called at most max_turns times, once per turn, and an
\* invocation that has made max_turns model calls, none of which failed or
\* gave a final answer, returns the sentinel of line 261.
C3_ExhaustionReturnsSentinel ==
    \A q \in Queries :
        /\ modelCalls[q] <= max_turns
        /\ pc[q] # "idle" => modelCalls[q] = i[q] + 1
        /\ (/\ pc[q] = "done"
            /\ modelCalls[q] = max_turns
            /\ lastEvent[q] \notin {"final_answer", "system_error"})
           => outcome[q] = Returned(PyStr(MAX_TURNS_TEXT))

\* C4: a turn whose reply is a final_answer plan ends the invocation with the
\* plan's content as the result; that step makes no call and leaves history as
\* it is, and an invocation that has ended takes no further step.
C4_FinalAnswerReturnsAtOnce ==
    [][\A q \in Queries :
         LET loaded == Loaded(lastReply'[q]) IN
         /\ (ModelStep(q) /\ ~lastReply'[q].raises /\ loaded.ok
               /\ WellFormedFinal(loaded.value))
            => /\ pc'[q] = "done"
               /\ outcome'[q] = Returned(loaded.value.content)
               /\ messages'[q] = messages[q]
               /\ NoCallsMade(q)
         /\ pc[q] = "done"
            => /\ pc'[q] = "done"
               /\ outcome'[q] = outcome[q]
               /\ messages'[q] = messages[q]
               /\ modelCalls'[q] = modelCalls[q]
               /\ delegations'[q] = delegations[q]
               /\ \A k \in 1..Len(sent') : k > Len(sent) => sent'[k][1] # q]_vars

C4_Witness ==
    \E q \in Queries :
        /\ lastEvent[q] = "final_answer"
        /\ delegations[q] = 1
        /\ Len(messages[q]) = 3
        /\ outcome[q] = Returned(PyStr(<<"N">>))

\* C5: a turn whose reply json.loads rejects appends the corrective turn and
\* nothing else, makes no delegation, uses up one turn, and does not end the
\* invocation unless it was the last turn of the budget.
C5_ParseFailureReprompts ==
    [][\A q \in Queries :
         (ModelStep(q) /\ ~lastReply'[q].raises /\ ~Loaded(lastReply'[q]).ok)
         => /\ messages'[q] = Append(messages[q], CorrectiveTurn)
            /\ delegations'[q] = delegations[q]
            /\ discoveries' = discoveries
            /\ sent' = sent
            /\ IF i[q] + 1 < max_turns
               THEN /\ pc'[q] = "model"
                    /\ i'[q] = i[q] + 1
                    /\ modelCalls'[q] = modelCalls[q] + 1
                    /\ outcome'[q] = Running
               ELSE Exhausted(q)']_vars

C5_Witness ==
    \E q \in Queries :
        /\ lastEvent[q] = "parse_failure"
        /\ reprompts[q] = 2
        /\ pc[q] = "model"
        /\ messages[q][Len(messages[q])] = CorrectiveTurn

\* C6: a model call that fails ends the invocation at once with "System
\* Error": no further model call, no delegation, no change of history.
C6_ModelFailureIsFatal ==
    [][\A q \in Queries :
         (ModelStep(q) /\ lastReply'[q].raises)
         => /\ pc'[q] = "done"
            /\ outcome'[q] = Returned(PyStr(SYSTEM_ERROR_TEXT))
            /\ messages'[q] = messages[q]
            /\ NoCallsMade(q)]_vars

C6_Witness ==
    \E q \in Queries :
        /\ lastEvent[q] = "system_error"
        /\ pc[q] = "done"
        /\ modelCalls[q] >= 3
        /\ delegations[q] = 1
        /\ outcome[q] = Returned(PyStr(SYSTEM_ERROR_TEXT))

\* delegation turns of q that are complete: call_agent has returned
CompletedDelegations(q) ==
    delegations[q] - (IF pc[q] \in {"discover", "close", "send"} THEN 1 ELSE 0)

\* C7: the length of history is 1 plus 2 for each completed delegation turn
\* plus 1 for each corrective turn.
C7_HistoryLength ==
    \A q \in Queries :
        pc[q] # "idle" =>
            Len(messages[q]) = 1 + 2 * CompletedDelegations(q) + reprompts[q]

C7_Witness ==
    \E q \in Queries :
        /\ delegations[q] = 1
        /\ reprompts[q] = 2
        /\ pc[q] = "model"
        /\ lastEvent[q] = "no_action"
        /\ Len(messages[q]) = 5

\* C8: history is append-only: in every step the history of an invocation is a
\* prefix of its history after the step.
C8_HistoryAppendOnly ==
    [][\A q \in Queries : pc[q] # "idle" => IsPrefix(messages[q], messages'[q])]_vars

C8_Witness ==
    \E q \in Queries :
        /\ Len(messages[q]) >= 5
        /\ reprompts[q] >= 1
        /\ delegations[q] >= 1
        /\ pc[q] = "model"

\* C9: no message is sent for a plan whose agent_name is not one of the two
\* known names, and the result of such a call is an error text.
C9_UnknownAgentIsRejected ==
    \A q \in Queries :
        /\ pc[q] = "send" => plan[q].agent_name \in KnownAgents
        /\ (lastEvent[q] = "delegated"
              /\ messages[q][Len(messages[q])].parts[2] \notin KnownAgents)
           => lastCall[q].raised

\* the endpoint a call_agent reply is routed to
CallReplies == {CALL_DATA_M, CALL_SUPPORT_M, CALL_BILLING_M}
UrlCalled(reply) ==
    IF CleanText(reply.text) = CALL_DATA_M
    THEN "http://localhost:10020" ELSE "http://localhost:10021"

\* the reply of this step asks for a call to an endpoint whose cached entry
\* satisfies Held: a create_task call begins
CallOnEntry(q, Held(_)) ==
    /\ ModelStep(q)
    /\ ~lastReply'[q].raises
    /\ CleanText(lastReply'[q].text) \in CallReplies
    /\ Held(agent_info_cache[UrlCalled(lastReply'[q])])

\* the descriptor a successful discovery of endpoint u stores
CardOf(u) == CacheEntry("dict", TRUE, u)

\* the entry is a parsed body other than null; there is none
IsHeld(entry) == entry.kind # "missing" /\ entry.kind # "None"
IsNotHeld(entry) == ~IsHeld(entry)

\* the cache holds a value for the endpoint that is not None
Cached(u) == IsHeld(agent_info_cache[u])

\* C10 as stated: at most one agent-card request per endpoint.
C10_AtMostOneDiscovery ==
    \A u \in Urls : discoveries[u] <= 1

\* C10: a create_task call issues the agent-card request exactly when it
\* begins while the cache holds no parsed body other than null for its
\* endpoint.  The call whose request returns a body that parses stores that
\* body under its endpoint, and a call that begins while a non-null body is
\* stored is a cache hit that issues no request.  A request that fails, or
\* whose body is no JSON, stores nothing, and a null body is stored as None
\* and counts as absent: the next call that begins before another call has
\* stored a non-null body issues the request again.  So calls that overlap
\* each issue their own request.
C10_NoDiscoveryOnceCached ==
    /\ [](\A u \in Urls :
            Cached(u) => discoveries[u] >= 1 /\ agent_info_cache[u].origin = u)
    /\ [][\A u \in Urls :
            discoveries'[u] # discoveries[u]
            => ~Cached(u) /\ discoveries'[u] = discoveries[u] + 1]_vars
    /\ [][\A q \in Queries :
            LET u == UrlCalled(lastReply'[q])
                v == plan[q].url
            IN  /\ CallOnEntry(q, IsHeld)
                   => discoveries' = discoveries /\ pc'[q] # "discover"
                /\ CallOnEntry(q, IsNotHeld)
                   => pc'[q] = "discover" /\ discoveries'[u] = discoveries[u] + 1
                /\ (pc[q] = "discover" /\ pc'[q] = "send")
                   => agent_info_cache'[v] = CardOf(v)
                /\ (pc[q] = "discover" /\ pc'[q] = "close")
                   => /\ agent_info_cache'[v].kind \in {"None", "list", "dict"}
                      /\ agent_info_cache'[v].origin = v
                /\ (pc[q] = "discover" /\ pc'[q] \notin {"discover", "send", "close"})
                   => /\ lastCall'[q].stage \in {"get", "json"}
                      /\ agent_info_cache' = agent_info_cache]_vars

SentTo(u) == {k \in 1..Len(sent) : sent[k][2] = u}

\* two messages went to an endpoint after one agent-card request: the
\* second call was a cache hit
C10_Witness ==
    \E u \in Urls :
        /\ discoveries[u] = 1
        /\ Cardinality(SentTo(u)) = 2

\* the request of a call failed and the next call to the endpoint issued it
\* again
C10_RetryWitness ==
    \E q \in Queries :
        /\ pc[q] = "discover"
        /\ delegations[q] = 2
        /\ lastCall[q].stage = "get"
        /\ discoveries[plan[q].url] = 2
        /\ cacheWrites[plan[q].url] = 0

\* C11: a create_task call whose discovery fails (the request raises, the body
\* is no JSON, or the parsed body is no valid card) ends with an error result
\* and leaves no descriptor cached for its endpoint, and a call never fails for
\* an invalid card without having issued the agent-card request itself, so the
\* next call to that endpoint requests the card again.
C11_FailedDiscoveryCachesNothing ==
    [][\A q \in Queries :
         /\ (pc[q] = "discover" /\ pc'[q] \notin {"discover", "send"})
            => /\ lastCall'[q].raised
               /\ lastCall'[q].text[1] = ERROR_CALLING_AGENT
               /\ agent_info_cache'[plan[q].url].kind \in {"missing", "None"}
         /\ (pc[q] = "model" /\ messages'[q] # messages[q]
               /\ lastEvent'[q] = "delegated")
            => ~lastCall'[q].raised]_vars

\* C12 as stated: once the cache holds a descriptor for an endpoint, the entry
\* is never overwritten, replaced or removed, in any interleaving.
C12_CacheEntryNeverChanges ==
    [][\A u \in Urls :
         agent_info_cache[u].valid
         => /\ cacheWrites'[u] = cacheWrites[u]
            /\ agent_info_cache'[u] = agent_info_cache[u]]_vars

\* C12: the agent-card request for an endpoint is issued only by a call that
\* finds no descriptor cached for it, and the entry of an endpoint is
\* assigned only when the request of such a call returns, under the endpoint
\* of that call and with the body that call fetched; no step deletes an
\* entry or changes it otherwise.  So each of several calls that missed
\* together assigns the entry, also when it holds a descriptor by then, and
\* the last to return wins.
C12_CacheWrittenByMissesOnly ==
    /\ [](\A u \in Urls : cacheWrites[u] <= discoveries[u])
    /\ [][\A u \in Urls :
            /\ discoveries'[u] # discoveries[u] => ~Cached(u)
            /\ agent_info_cache'[u] # agent_info_cache[u]
               => cacheWrites'[u] # cacheWrites[u]
            /\ cacheWrites'[u] # cacheWrites[u]
               => /\ cacheWrites'[u] = cacheWrites[u] + 1
                  /\ \E q \in Queries :
                       /\ pc[q] = "discover" /\ pc'[q] \in {"send", "close"}
                       /\ plan[q].url = u
                       /\ pc'[q] = "send" => agent_info_cache'[u] = CardOf(u)
                  /\ agent_info_cache'[u].kind # "missing"
                  /\ agent_info_cache'[u].origin = u]_vars

\* two calls for one endpoint missed together, each fetched the descriptor
\* and each assigned the entry: the descriptor the first one stored was
\* overwritten by the descriptor of the second, and both calls are sending
C12_Witness ==
    \E u \in Urls :
        /\ pc[1] = "send" /\ plan[1].url = u
        /\ pc[2] = "send" /\ plan[2].url = u
        /\ discoveries[u] = 2
        /\ cacheWrites[u] = 2
        /\ agent_info_cache[u] = CardOf(u)

\* C13: a discovery that succeeds stores the card of its endpoint under that
\* endpoint and leaves every other entry as it is; so when calls for different
\* endpoints are in flight together, each after the one successful discovery
\* of its endpoint, the cache maps each endpoint to its own card.
C13_EachEndpointKeepsItsOwnCard ==
    /\ [][\A q \in Queries :
            (pc[q] = "discover" /\ pc'[q] = "send")
            => /\ agent_info_cache'[plan[q].url] = CardOf(plan[q].url)
               /\ \A v \in Urls \ {plan[q].url} :
                    agent_info_cache'[v] = agent_info_cache[v]]_vars
    /\ [](\A q, r \in Queries :
            (/\ pc[q] = "send" /\ pc[r] = "send"
             /\ plan[q].url # plan[r].url
             /\ discoveries[plan[q].url] = 1 /\ discoveries[plan[r].url] = 1)
            => /\ agent_info_cache[plan[q].url] = CardOf(plan[q].url)
               /\ agent_info_cache[plan[r].url] = CardOf(plan[r].url))

C13_Witness ==
    /\ pc[1] = "send" /\ plan[1].url = DATA_AGENT_URL
    /\ pc[2] = "send" /\ plan[2].url = SUPPORT_AGENT_URL
    /\ discoveries[DATA_AGENT_URL] = 1 /\ discoveries[SUPPORT_AGENT_URL] = 1
    /\ agent_info_cache[DATA_AGENT_URL] = CardOf(DATA_AGENT_URL)
    /\ agent_info_cache[SUPPORT_AGENT_URL] = CardOf(SUPPORT_AGENT_URL)

\* turn t is one that invocation q itself appends: the text of a plan, or the
\* result of a call of its own (an error text or the agent's answer to q)
OwnTurn(q, t) ==
    \/ t.role = "model" /\ t.parts \in {CALL_DATA_M, CALL_SUPPORT_M}
    \/ /\ t.role = "user"
       /\ t.parts[1] = "Result from "
       /\ t.parts[4] \in {ERROR_CALLING_AGENT, AnswerTo(q)}

\* C14: a step of one invocation leaves the history, the position and the
\* result of every other invocation as they are; the history of invocation q
\* is its own seed turn followed by turns q appended itself, and a final
\* answer q returns is the content of the last reply the model gave to q.
C14_HistoriesAreIndependent ==
    /\ [][\A q, r \in Queries :
            (q # r /\ (messages'[q] # messages[q] \/ pc'[q] # pc[q]))
            => /\ messages'[r] = messages[r]
               /\ pc'[r] = pc[r]
               /\ i'[r] = i[r]
               /\ outcome'[r] = outcome[r]]_vars
    /\ [](\A q \in Queries :
            pc[q] # "idle" =>
               /\ Head(messages[q]) = SeedTurn(UserQueryOf(q))
               /\ \A k \in 2..Len(messages[q]) : OwnTurn(q, messages[q][k])
               /\ lastEvent[q] = "final_answer"
                  => outcome[q] = Returned(Loaded(lastReply[q]).value.content))

\* two invocations are running, each with the answer to its own call in its history
C14_Witness ==
    /\ pc[1] = "model" /\ pc[2] = "model"
    /\ Len(messages[1]) = 3 /\ messages[1][3].parts[4] = AnswerTo(1)
    /\ Len(messages[2]) = 3 /\ messages[2][3].parts[4] = AnswerTo(2)

\* the reply parses to an object that is no well-formed plan: its action is
\* none of the two, or a field its action needs is absent
IllFormedPlan(value) ==
    /\ value.type = "dict"
    /\ \/ "action" \notin value.has
       \/ value.action \notin {"call_agent", "final_answer"}
       \/ value.action = "final_answer" /\ "content" \notin value.has
       \/ value.action = "call_agent" /\ ~({"agent_name", "content"} \subseteq value.has)

\* C15: a turn whose reply parses but is no well-formed plan is answered like
\* unparsable output: the corrective turn is appended and nothing else, no
\* delegation is made, and one turn of the budget is used up.
C15_IllFormedPlanReprompts ==
    [][\A q \in Queries :
         LET loaded == Loaded(lastReply'[q]) IN
         (ModelStep(q) /\ ~lastReply'[q].raises /\ loaded.ok
            /\ IllFormedPlan(loaded.value))
         => /\ messages'[q] = Append(messages[q], CorrectiveTurn)
            /\ delegations'[q] = delegations[q]
            /\ outcome'[q].kind # "raise"
            /\ IF i[q] + 1 < max_turns
               THEN pc'[q] = "model" /\ i'[q] = i[q] + 1
               ELSE pc'[q] = "done"]_vars

\* the step of invocation q in which call_agent returns and the turn is folded back
DelegationEnds(q) == lastEvent'[q] = "delegated" /\ messages'[q] # messages[q]

\* the two turns a delegation turn appends, the model turn holding plan_text
TwoTurnsAppended(q, plan_text) ==
    LET n == Len(messages[q])
        agent_name == Loaded(lastReply'[q]).value.agent_name
    IN  /\ Len(messages'[q]) = n + 2
        /\ SubSeq(messages'[q], 1, n) = messages[q]
        /\ messages'[q][n + 1] = [role |-> "model", parts |-> plan_text]
        /\ messages'[q][n + 2] =
             [role |-> "user",
              parts |-> <<"Result from ", agent_name, ": ">> \o lastCall'[q].text]

\* C16 as stated: the model turn of a delegation turn holds the text the model
\* produced on that turn, as it was produced.
C16_ModelTurnHoldsRawText ==
    [][\A q \in Queries :
         DelegationEnds(q) => TwoTurnsAppended(q, lastReply'[q].text)]_vars

\* C16: a delegation turn appends exactly two turns, in this order: a model
\* turn holding the plan text of that turn after cleaning (every fence marker
\* removed, then stripped), and a user turn "Result from <agent_name>: <result>"
\* with the agent name of the plan and the result of the call.
C16_ModelTurnHoldsCleanText ==
    [][\A q \in Queries :
         DelegationEnds(q) => TwoTurnsAppended(q, CleanText(lastReply'[q].text))]_vars

\* a delegation turn whose plan came inside fence markers has been folded back
C16_Witness ==
    \E q \in Queries :
        /\ lastEvent[q] = "delegated"
        /\ lastReply[q].text = Fenced(CALL_DATA_M)
        /\ Len(messages[q]) = 3
        /\ messages[q][2] = ModelTurn(CALL_DATA_M)
        /\ messages[q][3] = ResultTurn("customer_data", <<"Ada Lovelace">>)

\* the call failed because the endpoint could not be reached: the agent-card
\* request or, with the card cached, send_message raised
Unreachable == {"get", "send"}

\* C17: when a delegation fails because the endpoint cannot be reached,
\* call_agent returns "Error calling agent: " followed by the exception's text
\* and process_query does not raise; the last turn of history is then the user
\* turn "Result from <agent_name>: " followed by exactly that text, and it is
\* the history of the next model call (or the budget is spent).
C17_UnreachableGivesErrorTurn ==
    \A q \in Queries :
        (lastEvent[q] = "delegated" /\ lastCall[q].stage \in Unreachable)
        => LET last == messages[q][Len(messages[q])]
               agent_name == Loaded(lastReply[q]).value.agent_name
           IN  /\ lastCall[q].text \in {ErrorText(MSG_CONNECT), ErrorText(MSG_READ_TIMEOUT)}
               /\ outcome[q].kind # "raise"
               /\ last.role = "user"
               /\ last.parts = <<"Result from ", agent_name, ": ">> \o lastCall[q].text
               /\ WentOn(q)

C17_Witness ==
    \E q \in Queries :
        /\ lastEvent[q] = "delegated"
        /\ lastCall[q].stage = "get"
        /\ pc[q] = "model"
        /\ messages[q][Len(messages[q])] =
             ResultTurn("support_agent", <<ERROR_CALLING_AGENT, MSG_CONNECT>>)

\* C18: when the first unit of the stream is a task from which the text cannot
\* be taken (artifacts is None or empty, the first artifact has no parts, the
\* first part has no text), create_task does not raise: it returns str(task).
C18_OddShapeIsRendered ==
    \A q \in Queries :
        (lastEvent[q] = "delegated" /\ lastCall[q].stage \in {"extract", "render"})
        => /\ ~lastCall[q].raised
           /\ lastCall[q].text[1] \in {"Task(artifacts=None)", "Task(artifacts=["}

\* invocation q has ended after two model calls: a call_agent plan for
\* customer_data with content M, then a final_answer plan with content N
DataThenFinal(q) ==
    /\ pc[q] = "done"
    /\ modelCalls[q] = 2
    /\ Len(messages[q]) = 3
    /\ messages[q][2] = ModelTurn(CALL_DATA_M)
    /\ ~lastReply[q].raises
    /\ CleanText(lastReply[q].text) = FINAL_N

\* C19: such an invocation returns N and has made exactly one delegation
\* call: create_task was entered once, for the customer-data endpoint, and
\* the one message sent (if the endpoint answered the agent-card request) went
\* to that endpoint with the text M.
C19_OneCallToDataAgent ==
    \A q \in Queries :
        DataThenFinal(q)
        => /\ outcome[q] = Returned(PyStr(<<"N">>))
           /\ delegations[q] = 1
           /\ discoveries[DATA_AGENT_URL] = 1
           /\ discoveries[SUPPORT_AGENT_URL] = 0
           /\ sent = IF lastCall[q].stage = "get" THEN <<>>
                     ELSE <<<<q, DATA_AGENT_URL, <<"M">>>>>>
           /\ messages[q][3] = ResultTurn("customer_data", lastCall[q].text)

C19_Witness ==
    \E q \in Queries :
        /\ DataThenFinal(q)
        /\ outcome[q] = Returned(PyStr(<<"N">>))
        /\ sent = <<<<q, DATA_AGENT_URL, <<"M">>>>>>
        /\ messages[q][3] = ResultTurn("customer_data", <<"Ada Lovelace">>)

\* invocation q has ended and every reply of the model was unparsable text
AllUnparsable(q) == pc[q] = "done" /\ reprompts[q] = modelCalls[q]

\* C20: an invocation in which every reply is unparsable has made max_turns
\* (15) model calls and no delegation call and has returned the sentinel; its
\* history is the seed turn followed by max_turns corrective turns.
C20_UnparsableEveryTurn ==
    \A q \in Queries :
        AllUnparsable(q)
        => /\ modelCalls[q] = max_turns
           /\ delegations[q] = 0
           /\ discoveries = [u \in Urls |-> 0]
           /\ sent = <<>>
           /\ outcome[q] = Returned(PyStr(MAX_TURNS_TEXT))
           /\ Len(messages[q]) = 1 + max_turns
           /\ \E user_query \in UserQueries : Head(messages[q]) = SeedTurn(user_query)
           /\ \A k \in 2..Len(messages[q]) : messages[q][k] = CorrectiveTurn

C20_Witness ==
    \E q \in Queries :
        /\ AllUnparsable(q)
        /\ reprompts[q] = 15
        /\ messages[q][16] = CorrectiveTurn
        /\ outcome[q] = Returned(PyStr(MAX_TURNS_TEXT))

\* the messages invocation q has sent, and the model turns of its history
SentBy(q) == {k \in 1..Len(sent) : sent[k][1] = q}
ModelTurns(q) == {k \in 1..Len(messages[q]) : messages[q][k].role = "model"}
InFlight(q) == IF pc[q] \in {"discover", "close", "send"} THEN 1 ELSE 0

\* C21: every call_agent plan enters create_task once: the calls of an
\* invocation are as many as its plans, it sends at most one message and
\* issues at most one agent-card request per call, and a call that has
\* started goes from the request to the message to its return, never back,
\* also when it fails; only a call_agent plan of the model starts a call.
C21_NoRetry ==
    /\ [](\A q \in Queries :
            /\ delegations[q] = Cardinality(ModelTurns(q)) + InFlight(q)
            /\ Cardinality(SentBy(q)) <= delegations[q])
    /\ [](discoveries[DATA_AGENT_URL] + discoveries[SUPPORT_AGENT_URL]
          <= SumTo(delegations, NQueries))
    /\ [][\A q \in Queries :
            /\ delegations'[q] # delegations[q]
               => /\ ModelStep(q)
                  /\ delegations'[q] = delegations[q] + 1
                  /\ Loaded(lastReply'[q]).value.action = "call_agent"
            /\ pc[q] = "send" => pc'[q] \in {"send", "model", "done"}
            /\ pc[q] = "discover"
               => pc'[q] \in {"discover", "close", "send", "model", "done"}
            /\ pc[q] = "close" => pc'[q] \in {"close", "model", "done"}
            /\ Len(sent') <= Len(sent) + 1]_vars

\* two plans, two calls: the first failed before a message was sent, the
\* second failed in send_message, and neither was made again
C21_Witness ==
    \E q \in Queries :
        /\ delegations[q] = 2
        /\ pc[q] = "model"
        /\ lastCall[q].raised /\ lastCall[q].stage = "send"
        /\ Cardinality(SentBy(q)) = 1
        /\ Len(messages[q]) = 5

\* C22: an invocation waits for one call at a time, the model call of its
\* turn or the delegation call of its turn: the model calls issued are one
\* more than the turns completed; while the model call is outstanding every
\* delegation has returned and has its two turns in history; the step that
\* issues the next model call after a delegation is the step in which the
\* call returns and its result turn is appended, and no model call is issued
\* and no turn appended while the call goes on.
C22_TurnsAreSequential ==
    /\ [](\A q \in Queries :
            /\ pc[q] \in {"model", "discover", "close", "send"}
               => modelCalls[q] = i[q] + 1
            /\ pc[q] = "model"
               => /\ Cardinality(ModelTurns(q)) = delegations[q]
                  /\ Len(messages[q]) = 1 + 2 * delegations[q] + reprompts[q]
                  /\ messages[q][Len(messages[q])].role = "user")
    /\ [][\A q \in Queries :
            pc[q] \in {"discover", "close", "send"}
            => IF pc'[q] \in {"discover", "close", "send"}
               THEN /\ modelCalls'[q] = modelCalls[q]
                    /\ messages'[q] = messages[q]
                    /\ i'[q] = i[q]
               ELSE /\ Len(messages'[q]) = Len(messages[q]) + 2
                    /\ messages'[q][Len(messages'[q])].parts[1] = "Result from "
                    /\ modelCalls'[q] = modelCalls[q] + (IF pc'[q] = "model" THEN 1 ELSE 0)]_vars

\* the delegation call of the second turn is outstanding: two model calls
\* have been issued and the first delegation is in history
C22_Witness ==
    \E q \in Queries :
        /\ pc[q] = "send"
        /\ i[q] = 1
        /\ modelCalls[q] = 2
        /\ delegations[q] = 2
        /\ Len(messages[q]) = 3

\* an upper bound of the awaits an invocation at position p of turn k has left
StepsLeft(p, k) ==
    IF p = "done" THEN 0
    ELSE 3 * (max_turns - k) + (CASE p = "send" -> 1 [] p = "discover" -> 2 [] OTHER -> 3)

\* C23: every invocation that has been started ends, when each of its model
\* calls and delegation calls returns or fails in the end: whatever the model
\* answers, after at most max_turns turns process_query returns or raises.
C23_EveryInvocationTerminates ==
    /\ \A q \in Queries : (pc[q] # "idle") ~> (pc[q] = "done")
    /\ [](\A q \in Queries : i[q] < max_turns)
    /\ [][\A q \in Queries :
            (pc[q] \notin {"idle", "done"}
               /\ <<pc[q], i[q], lastReply[q]>>' # <<pc[q], i[q], lastReply[q]>>)
            => StepsLeft(pc'[q], i'[q]) < StepsLeft(pc[q], i[q])]_vars

\* the budget was spent by seven unparsable replies and eight delegations
C23_Witness ==
    \E q \in Queries :
        /\ Exhausted(q)
        /\ reprompts[q] = 7
        /\ delegations[q] = 8
        /\ lastCall[q].raised

\* C24: once the caller's deadline has expired, the invocation makes no
\* further call and appends nothing: its next step ends it, with the
\* exhausted outcome as its result, whatever a call in flight returns.
C24_DeadlineEndsInvocation ==
    [][\A q \in Queries :
         (deadline[q] = "expired" /\ pc[q] \in {"model", "discover", "close", "send"}
            /\ pc'[q] # pc[q])
         => /\ pc'[q] = "done"
            /\ outcome'[q] = Returned(PyStr(MAX_TURNS_TEXT))
            /\ messages'[q] = messages[q]
            /\ modelCalls'[q] = modelCalls[q]
            /\ sent' = sent]_vars


(***************************************************************************)
(* C25  Every customer-data operation reports its outcome as an envelope   *)
(* with a success flag: whatever the arguments, the caller gets a dict     *)
(* with the key success, and a failure is a dict with success false and    *)
(* an error text, never a raised exception or a bare value.                *)
(***************************************************************************)
IsEnvelope(r) ==
    /\ r.kind = "return"
    /\ r.type = "dict"
    /\ "success" \in r.keys
    /\ ~r.success => "error" \in r.keys

C25_OutcomeIsAnEnvelope == lastOp # NoOp => IsEnvelope(opResult)

\* the part that holds: the operations of mcp_server.py
C25_McpOutcomeIsAnEnvelope == lastOp.impl = "mcp_server.py" => IsEnvelope(opResult)


(***************************************************************************)
(* C26  call_agent sends the query to the customer-data endpoint when      *)
(* agent_name is "customer_data" and to the support endpoint when it is    *)
(* "support_agent"; the message sent is exactly the content field of the   *)
(* plan, and exactly one endpoint receives it: a step that sends for an    *)
(* invocation adds one entry, to the endpoint of the agent the model       *)
(* named, with the content the model gave, and an invocation never has     *)
(* more sends than delegations.                                            *)
(***************************************************************************)
SendsOf(q, old, new) == {k \in 1..Len(new) : k > Len(old) /\ new[k][1] = q}

C26_MessageGoesToTheNamedAgent ==
    /\ [](\A q \in Queries : Cardinality(SentBy(q)) <= delegations[q])
    /\ [][LET after == sent'
              reply == lastReply' IN
          \A q \in Queries :
            SendsOf(q, sent, after) # {}
            => /\ SendsOf(q, sent, after) = {Len(sent) + 1}
               /\ Len(after) = Len(sent) + 1
               /\ CleanText(reply[q].text) = CALL_DATA_M
                  => after[Len(after)] = <<q, DATA_AGENT_URL, <<"M">>>>
               /\ CleanText(reply[q].text) = CALL_SUPPORT_M
                  => after[Len(after)] = <<q, SUPPORT_AGENT_URL, <<"M">>>>
               /\ CleanText(reply[q].text) \in {CALL_DATA_M, CALL_SUPPORT_M}]_vars

\* one message went to each endpoint
C26_Witness ==
    /\ \E k \in 1..Len(sent) : sent[k][2] = DATA_AGENT_URL
    /\ \E k \in 1..Len(sent) : sent[k][2] = SUPPORT_AGENT_URL


(***************************************************************************)
(* C27  The descriptor cache is changed only inside create_task: a turn    *)
(* that ends in a parse failure, a final answer, a model-call failure or   *)
(* an unrecognised action leaves the cache unchanged, and a create_task    *)
(* call for one endpoint leaves the entries of every other endpoint        *)
(* unchanged.                                                              *)
(***************************************************************************)
TurnWithoutCall == {"parse_failure", "final_answer", "system_error", "no_action"}

\* A turn that ends without a call leaves every entry as it is; an entry
\* changes, or is assigned, only in the step in which the agent-card request
\* of a call to its endpoint returns, and that step leaves the entry of
\* every other endpoint as it is, also an entry that holds a descriptor.
C27_CacheChangesOnlyInCreateTask ==
    [][LET cache == agent_info_cache'
           event == lastEvent'
           turn_of(q) == ModelStep(q) IN
       /\ \A q \in Queries :
            turn_of(q) /\ event[q] \in TurnWithoutCall
            => cache = agent_info_cache /\ cacheWrites' = cacheWrites
       /\ \A u \in Urls :
            (cache[u] # agent_info_cache[u] \/ cacheWrites'[u] # cacheWrites[u])
            => /\ \E q \in Queries : pc[q] = "discover" /\ plan[q].url = u
               /\ \A v \in Urls \ {u} :
                    cache[v] = agent_info_cache[v] /\ cacheWrites'[v] = cacheWrites[v]]_vars

\* the descriptor of the customer-data endpoint was cached by the first
\* call and is still there after the second call cached the descriptor of
\* the support endpoint, and the turn after that ended in a parse failure
C27_Witness ==
    /\ agent_info_cache[DATA_AGENT_URL] = CardOf(DATA_AGENT_URL)
    /\ agent_info_cache[SUPPORT_AGENT_URL] = CardOf(SUPPORT_AGENT_URL)
    /\ messages[1][2].parts = CALL_DATA_M
    /\ delegations[1] = 2
    /\ lastEvent[1] = "parse_failure"


(***************************************************************************)
(* C28  Fence markers around the model output do not change the plan: the  *)
(* output wrapped in an opening marker (with or without json) and a        *)
(* closing marker is parsed to the same plan, and leads to the same        *)
(* transition, as the same output without markers.  Invocation 2 gets the  *)
(* replies of invocation 1 with markers around them: whenever both have    *)
(* handled the same number of replies, they are in the same state.         *)
(***************************************************************************)
AtTurnEnd(q) == pc[q] \in {"model", "done"}

SameTransition(q, r) ==
    /\ pc[q] = pc[r]
    /\ i[q] = i[r]
    /\ messages[q] = messages[r]
    /\ outcome[q] = outcome[r]
    /\ lastEvent[q] = lastEvent[r]
    /\ delegations[q] = delegations[r]
    /\ reprompts[q] = reprompts[r]
    /\ SentBy(q) # {} =>
         /\ SentBy(r) # {}
         /\ LET a == sent[CHOOSE k \in SentBy(q) : \A j \in SentBy(q) : j <= k]
                b == sent[CHOOSE k \in SentBy(r) : \A j \in SentBy(r) : j <= k]
            IN  a[2] = b[2] /\ a[3] = b[3]

C28_FencesDoNotChangeThePlan ==
    /\ (AtTurnEnd(1) /\ AtTurnEnd(2) /\ Received(1) = Received(2))
       => /\ SameTransition(1, 2)
          /\ Decide(lastReply[1]) = Decide(lastReply[2])
    /\ (Received(2) >= 1 /\ Received(1) = Received(2) /\ ~AtTurnEnd(1) /\ ~AtTurnEnd(2))
       => plan[1] = plan[2]

\* both invocations delegated to the same agent, the second on a reply with
\* markers, and both ended with the same answer, the second on a reply with
\* the bare opening marker
C28_Witness ==
    /\ pc[1] = "done" /\ pc[2] = "done"
    /\ delegations[1] = 1 /\ delegations[2] = 1
    /\ lastReply[1] = Reply(FINAL_N)
    /\ lastReply[2] = Reply(BareFenced(FINAL_N))
    /\ messages[2][2] = ModelTurn(CALL_DATA_M)


(***************************************************************************)
(* C29  create_task reads the agent's response stream to its end before    *)
(* extracting, and the text it returns is taken only from the first        *)
(* response unit (first artifact, first part); later units never change    *)
(* the result.  If the stream is empty or its first unit is not a          *)
(* non-empty tuple, the result is the fixed text "No response received".   *)
(***************************************************************************)
AfterSend(q) ==
    lastCall[q].stage \in {"send", "extract", "text", "render", "no_response"}

NoFirstTuple(responses) ==
    \/ responses = <<>>
    \/ ~responses[1].is_tuple
    \/ responses[1].len = 0

C29_TextComesFromFirstUnit ==
    \A q \in Queries :
        AfterSend(q) =>
            LET stream == lastStream[q]
                call == lastCall[q]
                task == stream.responses[1].task
            IN  /\ stream.raises <=> call.stage = "send"
                /\ stream.raises => call.raised /\ Head(call.text) = ERROR_CALLING_AGENT
                /\ ~stream.raises =>
                     /\ NoFirstTuple(stream.responses)
                        <=> call = [stage |-> "no_response", raised |-> FALSE,
                                    text |-> <<"No response received">>]
                     /\ call.stage = "text"
                        => call.text = <<task.artifacts[1][1].text>> /\ ~call.raised
                     /\ call.stage = "render"
                        => call.text = RenderTask(task) /\ ~call.raised
                     /\ call.stage = "extract" => task.artifacts_none /\ call.raised
                     /\ (~NoFirstTuple(stream.responses) /\ task = GoodTask)
                        => call.text = <<"Ada Lovelace">>

\* the stream had two units with different texts, and the first one's text
\* was folded into the history
C29_Witness ==
    /\ lastEvent[1] = "delegated"
    /\ lastStream[1] = Stream(<<Unit(TRUE, GoodTask), Unit(TRUE, OtherTask)>>)
    /\ lastCall[1].text = <<"Ada Lovelace">>
    /\ messages[1][Len(messages[1])] = ResultTurn("customer_data", <<"Ada Lovelace">>)


(***************************************************************************)
(* C30  History role invariant: the first entry is always the seed user    *)
(* turn (the instructions followed by the literal user query) and is never *)
(* changed; every model turn is immediately followed by a "Result from"    *)
(* user turn; hence at every model call the last entry of history has role *)
(* user.                                                                   *)
(***************************************************************************)
IsResultTurn(turn) == turn.role = "user" /\ Head(turn.parts) = "Result from "

C30_HistoryRoles ==
    /\ [](\A q \in Queries :
            pc[q] # "idle" =>
              LET history == messages[q]
                  n == Len(history)
              IN  /\ n >= 1
                  /\ history[1].role = "user"
                  /\ \E user_query \in UserQueries :
                       history[1].parts = <<SYSTEM_PROMPT, "\n\nUser Query: ", user_query>>
                  /\ \A k \in 1..n :
                       history[k].role = "model"
                       => k > 1 /\ k < n /\ IsResultTurn(history[k + 1])
                  /\ \A k \in 1..n : history[k].role \in {"user", "model"}
                  /\ pc[q] = "model" => history[n].role = "user")
    /\ [][\A q \in Queries :
            pc[q] # "idle" => Head(messages'[q]) = Head(messages[q])]_vars

\* a model call is in flight on a history of seed turn, model turn, result
\* turn and corrective turn
C30_Witness ==
    /\ pc[1] = "model"
    /\ Len(messages[1]) = 4
    /\ messages[1][2].role = "model"
    /\ IsResultTurn(messages[1][3])
    /\ messages[1][4] = CorrectiveTurn


(***************************************************************************)
(* C31  The fetched descriptor body is written to the cache before it is   *)
(* validated: when the body parses as JSON but is no valid descriptor, the *)
(* entry stays cached, and every later create_task call to that endpoint   *)
(* fails in the same way without issuing a new discovery request.          *)
(***************************************************************************)
UrlOfTurn(turn) ==
    IF turn.parts[2] = "customer_data"
    THEN "http://localhost:10020" ELSE "http://localhost:10021"

\* the call of invocation q failed on the body fetched for its endpoint
BodyRejected(q) ==
    /\ pc[q] = "discover"
    /\ pc'[q] \notin {"discover", "send"}
    /\ lastCall'[q].stage = "card"

\* a later call fails as the call before it did, and requests nothing
FailsAsBefore(q) ==
    LET n == Len(messages[q])
        after == messages'[q]
        u == UrlCalled(lastReply'[q])
    IN  /\ discoveries' = discoveries
        /\ agent_info_cache' = agent_info_cache
        /\ sent' = sent
        /\ lastEvent'[q] = "delegated"
        /\ lastCall'[q].stage = "card" /\ lastCall'[q].raised
        /\ Head(lastCall'[q].text) = ERROR_CALLING_AGENT
        /\ (lastEvent[q] = "delegated" /\ UrlOfTurn(messages[q][n]) = u)
           => /\ lastCall[q].stage = "card"
              /\ SubSeq(after[n + 2].parts, 4, Len(after[n + 2].parts))
                 = SubSeq(messages[q][n].parts, 4, Len(messages[q][n].parts))

IsInvalidBody(entry) == entry.kind # "missing" /\ ~entry.valid
IsInvalidNonNull(entry) == entry.kind \in {"list", "dict"} /\ ~entry.valid
IsNull(entry) == entry.kind = "None"

\* C31 as stated: every body that parses and is no valid descriptor, null
\* included, stays cached and is used by the later calls.
C31_InvalidBodyIsReused ==
    [][\A q \in Queries :
         /\ BodyRejected(q)
            => /\ IsInvalidBody(agent_info_cache'[plan[q].url])
               /\ agent_info_cache'[plan[q].url].origin = plan[q].url
         /\ CallOnEntry(q, IsInvalidBody) => FailsAsBefore(q)]_vars

\* C31: the body is stored before it is validated.  A body that is no valid
\* descriptor and not null (a list, an object without the descriptor's
\* fields) stays cached, and every later call to that endpoint fails with the
\* same error text without a discovery request, a send or a change of the
\* cache.  The body null is stored as None, which the cache check treats as
\* absent: the next call to that endpoint issues the discovery request again.
C31_InvalidNonNullBodyIsReused ==
    [][\A q \in Queries :
         /\ BodyRejected(q)
            => /\ IsInvalidBody(agent_info_cache'[plan[q].url])
               /\ agent_info_cache'[plan[q].url].origin = plan[q].url
         /\ CallOnEntry(q, IsInvalidNonNull) => FailsAsBefore(q)
         /\ CallOnEntry(q, IsNull)
            => /\ pc'[q] = "discover"
               /\ discoveries'[UrlCalled(lastReply'[q])]
                  = discoveries[UrlCalled(lastReply'[q])] + 1]_vars

\* two calls to the customer-data endpoint failed on the same cached body with
\* the same text, after one discovery request
C31_Witness ==
    /\ delegations[1] = 2
    /\ lastEvent[1] = "delegated"
    /\ discoveries["http://localhost:10020"] = 1
    /\ IsInvalidNonNull(agent_info_cache["http://localhost:10020"])
    /\ Len(messages[1]) = 5
    /\ messages[1][3] = messages[1][5]
    /\ messages[1][3].parts[2] = "customer_data"
    /\ messages[1][3].parts[4] = ERROR_CALLING_AGENT


(***************************************************************************)
(* C32  Fence-marker removal applies to the whole model output, not only   *)
(* to its first and last line: every fence marker inside the plan's        *)
(* content field is removed too, so the final answer returned, or the      *)
(* message sent to an agent, is the content with all fence markers         *)
(* deleted.                                                                *)
(***************************************************************************)
\* the plan is written as an opening token, the tokens of its content string
\* and a closing token
HasContentTokens(text) == \E k \in 1..Len(text) : text[k] \in Heads
\* the tokens of the content string of a plan, as the model wrote them
ContentWritten(text) ==
    LET h == CHOOSE k \in 1..Len(text) : text[k] \in Heads
        t == CHOOSE k \in 1..Len(text) : text[k] = "\"}"
    IN  SubSeq(text, h + 1, t - 1)
WithoutMarkers(text) == SelectSeq(text, LAMBDA tok : tok \notin {"~~~json", "~~~"})
HasMarker(text) == \E k \in 1..Len(text) : text[k] \in {"~~~json", "~~~"}
LastSentBy(q) == sent[CHOOSE k \in SentBy(q) : \A j \in SentBy(q) : j <= k]

C32_MarkersInsideContentAreRemoved ==
    \A q \in 1..2 :
        /\ (lastEvent[q] = "final_answer" /\ HasContentTokens(lastReply[q].text))
           => /\ outcome[q].kind = "return"
              /\ outcome[q].value.s = WithoutMarkers(ContentWritten(lastReply[q].text))
              /\ ~HasMarker(outcome[q].value.s)
        /\ pc[q] = "send"
           => HasContentTokens(lastReply[q].text)
        /\ pc[q] = "send"
           => LastSentBy(q)[3] = WithoutMarkers(ContentWritten(lastReply[q].text))
        /\ \A k \in 1..Len(sent) : ~HasMarker(sent[k][3])

\* a message was sent and a final answer returned on plans whose content
\* held markers
C32_Witness ==
    /\ lastReply[1] = Reply(FINAL_FENCES)
    /\ outcome[1] = Returned(PyStr(<<"N">>))
    /\ pc[2] = "send"
    /\ lastReply[2] = Reply(Fenced(CALL_DATA_FENCES))
    /\ LastSentBy(2) = <<2, DATA_AGENT_URL, <<"M">>>>

\* the request names a method the server does not have
UnknownMethod(message) == message.method \notin {"initialize", "tools/list", "tools/call"}
\* the request is a tools/call whose name is none of the server's tools
UnknownTool(message) ==
    /\ message.method = "tools/call"
    /\ LET name == message.params.name IN
       ~(message.params.type = "dict" /\ name.type = "str" /\ name.s[1] \in ToolNames)
\* the request is a tools/call of one of the server's tools whose call raises
ToolCallRaises(message) ==
    /\ message.method = "tools/call"
    /\ ~UnknownTool(message)
    /\ LET arguments == message.params.arguments
           tool == message.params.name.s[1]
       IN  \/ arguments.type \notin {"dict", "absent"}
           \/ ~(ToolRequired(tool) \subseteq arguments.keys)
           \/ ~(arguments.keys \subseteq ToolParameters(tool))
\* the response to the request is an answer that carries the request's id
Answered == mcpResponse.kind \in {"result", "error"} /\ mcpResponse.id = mcpRequest.id
\* the response is an error with this code
ErrorWith(code) == mcpResponse.kind = "error" /\ mcpResponse.code = code
\* the step handled the request without running a tool or changing a table
NoToolRan ==
    LET request == mcpRequest' IN
    mcpRequest' # NoMessage /\ (UnknownMethod(request) \/ UnknownTool(request))
        => customers' = customers /\ tickets' = tickets /\ lastOp' = NoOp

\* C33: process_mcp_message answers every request with a response whose id
\* is the request's id; an unknown method and a tools/call naming an unknown
\* tool both yield an error with code -32601, run no tool and leave the
\* customers and the tickets unchanged; a tool call that raises yields an
\* error with code -32603
C33_EveryRequestIsAnswered ==
    /\ [](mcpRequest # NoMessage =>
            /\ Answered
            /\ (UnknownMethod(mcpRequest) \/ UnknownTool(mcpRequest) => ErrorWith(-32601))
            /\ (ToolCallRaises(mcpRequest) => ErrorWith(-32603)))
    /\ [][NoToolRan]_vars

\* the request holds a params that is a dict, or none, and a name that can
\* be hashed
HasDictParams(message) ==
    /\ message.params.type \in {"dict", "absent"}
    /\ message.params.name.type \notin Unhashable
\* the same for the requests whose params is a dict or absent: these are
\* answered, with the codes above
C33_DictParamsAreAnswered ==
    /\ [](mcpRequest # NoMessage /\ HasDictParams(mcpRequest) =>
            /\ Answered
            /\ (UnknownMethod(mcpRequest) \/ UnknownTool(mcpRequest) => ErrorWith(-32601))
            /\ (ToolCallRaises(mcpRequest) => ErrorWith(-32603)))
    /\ [][NoToolRan]_vars
\* a request with a params that is no dict: the exception leaves process_mcp_message
C33_Unanswered == mcpRequest.method = "tools/call" /\ mcpResponse.kind = "raise"

\* the operation is a write that has to fail on these customers: an update
\* of a customer that does not exist or with no field to set, a ticket for
\* a customer that does not exist
IsFailedWrite(op, cs) ==
    \/ op.name = "update_customer" /\ (op.customer_id \notin DOMAIN cs \/ op.fields = {})
    \/ op.name = "create_ticket" /\ op.customer_id \notin DOMAIN cs
\* the operation reported a failure: a failure envelope, or an exception
IsFailure(result) ==
    \/ result.kind = "raise"
    \/ result.kind = "return" /\ "success" \in result.keys /\ ~result.success
\* the step of an operation whose write has to fail changes no row
FailedWriteChangesNothing(op) ==
    IsFailedWrite(op, customers) =>
        IsFailure(opResult') /\ customers' = customers /\ tickets' = tickets
\* the step of a create_ticket that succeeded added one open ticket of its customer
CreatedOneTicket(op) ==
    op.name = "create_ticket" /\ ~IsFailure(opResult') =>
        /\ Len(tickets') = Len(tickets) + 1
        /\ SubSeq(tickets', 1, Len(tickets)) = tickets
        /\ tickets'[Len(tickets')].status = "open"
        /\ tickets'[Len(tickets')].customer_id = op.customer_id
        /\ customers' = customers

\* C34: update_customer for an id that does not exist, update_customer with
\* no field to update and create_ticket for a customer id that does not
\* exist each report a failure and change no customer and no ticket; a
\* successful create_ticket adds exactly one ticket, with status 'open' and
\* the given customer id
C34_FailedWriteLeavesStoreUnchanged ==
    [][LET op == lastOp' IN FailedWriteChangesNothing(op) /\ CreatedOneTicket(op)]_vars
\* the same for the operations of mcp_server.py alone
C34_McpFailedWriteLeavesStoreUnchanged ==
    [][LET op == lastOp' IN
       op.impl = "mcp_server.py" => FailedWriteChangesNothing(op) /\ CreatedOneTicket(op)]_vars
\* db.py has created a ticket for a customer that does not exist
C34_TicketWithoutCustomer ==
    /\ lastOp.impl = "db.py" /\ lastOp.name = "create_ticket"
    /\ lastOp.customer_id \notin DOMAIN customers
    /\ tickets # <<>>

\* C35: every ticket refers to an existing customer, after any sequence of
\* customer-data operations on a store that started that way
C35_TicketsReferToCustomers ==
    \A k \in 1..Len(tickets) : tickets[k].customer_id \in DOMAIN customers

\* the names of the three read operations
ReadOperations == {"get_customer", "list_customers", "get_customer_history"}

\* C36: get_customer, list_customers and get_customer_history leave the
\* customers and the tickets unchanged for every input, an unknown customer
\* id and an invalid status filter included
C36_ReadsLeaveStoreUnchanged ==
    [][lastOp'.name \in ReadOperations => customers' = customers /\ tickets' = tickets]_vars
\* a read of a customer that does not exist, on a store that writes have changed
C36_Witness ==
    /\ lastOp.name \in ReadOperations
    /\ lastOp.customer_id \notin DOMAIN customers /\ lastOp.customer_id # 0
    /\ tickets # <<>>
    /\ \E id \in DOMAIN customers : customers[id].updated_at = "CURRENT_TIMESTAMP"
\* list_customers has answered a status filter that is not valid
C36_InvalidStatusWitness ==
    /\ lastOp = Op("mcp_server.py", "list_customers", 0)
    /\ opResult = Failure
    /\ tickets # <<>>

\* C37: every operation of mcp_server.py closes the connection it opened on
\* every return path, so no connection is open when no operation is running
C37_NoOpenConnections == openConnections = 0
\* the same for the operations of mcp_server.py that return a success
C37_SuccessfulOperationClosesConnection ==
    [][lastOp'.impl = "mcp_server.py" /\ opResult'.success
           => openConnections' = openConnections]_vars

====
